---- MODULE Spec2Model ----
(***************************************************************************)
(* Reconciliation of PDF documents against an Excel reference table:       *)
(*   - process_files (src/app.py), the free-text pipeline;                 *)
(*   - InvoiceProcessor.compare_data_with_ai (src/invoice_processor.py),   *)
(*     the structured (JSON) response parser;                              *)
(*   - InvoiceProcessor.process_invoice_batch, the structured pipeline;    *)
(*   - InvoiceProcessor.generate_report and create_summary_stats           *)
(*     (src/utils.py), the report and its statistics;                      *)
(*   - the main script of src/Raw.py, the command-line reconciler.         *)
(* A Python str is a sequence of one-character strings, so that lower(),   *)
(* strip(), "in", slicing, re.search and json.loads are computed           *)
(* character by character.                                                 *)
(***************************************************************************)
EXTENDS Integers, Sequences, FiniteSets, TLC

\* Largest number of PDF files in one batch.
MaxDocs == 2

-----------------------------------------------------------------------------
(* Python values *)

\* Python None, and a value that is not None.
None == [some |-> FALSE, val |-> <<>>]
Some(v) == [some |-> TRUE, val |-> v]

\* The outcome of a call that may raise: a returned value, or an exception
\* e with str(e) = msg.
Returns(v) == [ok |-> TRUE, val |-> v]
Raises(msg) == [ok |-> FALSE, val |-> msg]

UpperCase == <<"A","B","C","D","E","F","G","H","I","J","K","L","M","N","O","P","Q","R","S","T","U","V","W","X","Y","Z">>
LowerCase == <<"a","b","c","d","e","f","g","h","i","j","k","l","m","n","o","p","q","r","s","t","u","v","w","x","y","z">>
Digits == <<"0","1","2","3","4","5","6","7","8","9">>

IsUpper(c) == \E k \in 1..Len(UpperCase) : UpperCase[k] = c
IsDigit(c) == \E k \in 1..Len(Digits) : Digits[k] = c
\* The characters \s matches and str.strip() removes.
IsSpace(c) == c \in {" ", "\n", "\t", "\r"}

\* str.lower()
lower(s) ==
  [k \in 1..Len(s) |->
     IF IsUpper(s[k])
       THEN LowerCase[CHOOSE j \in 1..Len(UpperCase) : UpperCase[j] = s[k]]
       ELSE s[k]]

\* p in s
contains(p, s) ==
  \E k \in 1..(Len(s) - Len(p) + 1) : SubSeq(s, k, k + Len(p) - 1) = p

\* str.strip(): s without its leading and trailing whitespace.
strip(s) ==
  LET keep == {k \in 1..Len(s) : ~IsSpace(s[k])}
  IN  IF keep = {} THEN <<>>
      ELSE SubSeq(s, CHOOSE a \in keep : \A b \in keep : a <= b,
                     CHOOSE a \in keep : \A b \in keep : b <= a)

\* str(n) of an integer n >= 0.
RECURSIVE str(_)
str(n) == IF n < 10 THEN <<Digits[n + 1]>> ELSE str(n \div 10) \o <<Digits[(n % 10) + 1]>>

-----------------------------------------------------------------------------
(* find_patient_id: re.search(r"(?:Patient\s*ID|ID)\s*[:\-]?\s*(\d+)", text, re.IGNORECASE) *)

\* 'patient'
LabelPatient == <<"p","a","t","i","e","n","t">>
\* 'id'
LabelID == <<"i","d">>

\* The first index >= k of s that holds no whitespace (\s*, greedy).
RECURSIVE SkipSpaces(_, _)
SkipSpaces(s, k) == IF k <= Len(s) /\ IsSpace(s[k]) THEN SkipSpaces(s, k + 1) ELSE k

\* The first index >= k of s that holds no digit (\d+, greedy).
RECURSIVE SkipDigits(_, _)
SkipDigits(s, k) == IF k <= Len(s) /\ IsDigit(s[k]) THEN SkipDigits(s, k + 1) ELSE k

\* Whether the literal p (lower case) matches s at index k under re.IGNORECASE.
LiteralAt(s, k, p) ==
  k + Len(p) - 1 <= Len(s) /\ lower(SubSeq(s, k, k + Len(p) - 1)) = p

\* (?:Patient\s*ID|ID) at index k: the index after the label, 0 when neither
\* alternative matches there.
LabelEnd(s, k) ==
  IF LiteralAt(s, k, LabelPatient)
    THEN LET j == SkipSpaces(s, k + Len(LabelPatient))
         IN  IF LiteralAt(s, j, LabelID) THEN j + Len(LabelID) ELSE 0
    ELSE IF LiteralAt(s, k, LabelID) THEN k + Len(LabelID) ELSE 0

\* The whole pattern at index k: group 1 (the digit run) or None.
MatchAt(s, k) ==
  LET e == LabelEnd(s, k)
      a == SkipSpaces(s, e)
      b == IF a <= Len(s) /\ s[a] \in {":", "-"} THEN a + 1 ELSE a
      c == SkipSpaces(s, b)
      d == SkipDigits(s, c)
  IN  IF e # 0 /\ d > c THEN Some(SubSeq(s, c, d - 1)) ELSE None

\* m.group(1) if m else None, m the leftmost match.
find_patient_id(text) ==
  LET hits == {k \in 1..Len(text) : MatchAt(text, k).some}
  IN  IF hits = {} THEN None
      ELSE MatchAt(text, CHOOSE k \in hits : \A j \in hits : k <= j)

-----------------------------------------------------------------------------
(* The literals of process_files and compare_with_gpt *)

\* 'Patient ID'
PatientIDCol == <<"P","a","t","i","e","n","t"," ","I","D">>
\* 'Name'
NameCol == <<"N","a","m","e">>
\* 'Not Found'
NotFound == <<"N","o","t"," ","F","o","u","n","d">>
\* 'Error'
ErrorID == <<"E","r","r","o","r">>
\* 'Patient ID not found in PDF'
MsgIdNotFound == <<"P","a","t","i","e","n","t"," ","I","D"," ","n","o","t"," ","f","o","u","n","d"," ","i","n"," ","P","D","F">>
\* 'Patient ID '
MsgPatientID == <<"P","a","t","i","e","n","t"," ","I","D"," ">>
\* ' not found in Excel master data'
MsgNotInExcel == <<" ","n","o","t"," ","f","o","u","n","d"," ","i","n"," ","E","x","c","e","l"," ","m","a","s","t","e","r"," ","d","a","t","a">>
\* 'Processing error: '
MsgProcessingError == <<"P","r","o","c","e","s","s","i","n","g"," ","e","r","r","o","r",":"," ">>
\* 'Error during comparison: '
MsgErrorDuringComparison == <<"E","r","r","o","r"," ","d","u","r","i","n","g"," ","c","o","m","p","a","r","i","s","o","n",":"," ">>
\* 'No discrepancies'
NoDiscrepancies == <<"N","o"," ","d","i","s","c","r","e","p","a","n","c","i","e","s">>
\* 'no discrepancies'
PhraseNoDiscrepancies == <<"n","o"," ","d","i","s","c","r","e","p","a","n","c","i","e","s">>
\* 'all the data'
PhraseAllTheData == <<"a","l","l"," ","t","h","e"," ","d","a","t","a">>
\* 'Error during comparison'
PhraseErrorDuringComparison == <<"E","r","r","o","r"," ","d","u","r","i","n","g"," ","c","o","m","p","a","r","i","s","o","n">>
\* str(KeyError('Patient ID'))
KeyErrorPatientID == <<"'","P","a","t","i","e","n","t"," ","I","D","'">>
\* pdf_text[:3800]
MaxPromptChars == 3800

-----------------------------------------------------------------------------
(* The input samples: PDF documents, Excel workbooks, service behaviours *)

\* 'Name: Jane Doe\nPatient ID:'
PageName == <<"N","a","m","e",":"," ","J","a","n","e"," ","D","o","e","\n","P","a","t","i","e","n","t"," ","I","D",":">>
\* '000123\nPlan: Aetna'
Page000123 == <<"0","0","0","1","2","3","\n","P","l","a","n",":"," ","A","e","t","n","a">>
\* 'Paid 123 7'
PageInvoice == <<"P","a","i","d"," ","1","2","3"," ","7">>
\* 'PATIENT  ID 77'
PageUnknownId == <<"P","A","T","I","E","N","T"," "," ","I","D"," ","7","7">>
\* 'Patient: Jane Doe, no number'
PageNoId == <<"P","a","t","i","e","n","t",":"," ","J","a","n","e"," ","D","o","e",","," ","n","o"," ","n","u","m","b","e","r">>
\* 'cannot open broken document'
ErrCorruptPdf == <<"c","a","n","n","o","t"," ","o","p","e","n"," ","b","r","o","k","e","n"," ","d","o","c","u","m","e","n","t">>

\* The bytes of a PDF, by what fitz makes of them: the texts of its pages, or
\* no document at all.
Pdf(pages) == [valid |-> TRUE, pages |-> pages]
CorruptPdf == [valid |-> FALSE, pages |-> <<>>]
PdfSamples ==
  { Pdf(<<PageName, Page000123>>),   \* identifier 000123, label and digits on two pages
    Pdf(<<PageInvoice>>),            \* identifier 123
    Pdf(<<PageUnknownId>>),          \* identifier 77, in no workbook
    Pdf(<<PageNoId>>),               \* no identifier
    CorruptPdf }

\* The uploaded files are named by their place in the upload.
FileNames == <<"scan_b.pdf", "scan_a.pdf", "scan_d.pdf", "scan_c.pdf">>
FileName(k) == FileNames[((k - 1) % Len(FileNames)) + 1]

\* 'ALICE'
CellAlice == <<"A","L","I","C","E">>
\* 'BOB'
CellBob == <<"B","O","B">>
\* 'CAROL'
CellCarol == <<"C","A","R","O","L">>
\* '000123'
Cell000123 == <<"0","0","0","1","2","3">>
\* 'File is not a zip file'
ErrBadExcel == <<"F","i","l","e"," ","i","s"," ","n","o","t"," ","a"," ","z","i","p"," ","f","i","l","e">>

\* A workbook cell: text, or a number.
TextCell(s) == [text |-> s]
NumCell(n) == [num |-> n]
PatientRow(id, name) == (PatientIDCol :> id) @@ (NameCol :> TextCell(name))
Workbook(columns, rows) == [readable |-> TRUE, columns |-> columns, rows |-> rows]

\* Identifier 123 stored as a number (row 1), 000123 stored as text twice
\* (rows 2 and 3).
MasterData ==
  Workbook({PatientIDCol, NameCol},
           << PatientRow(NumCell(123), CellBob),
              PatientRow(TextCell(Cell000123), CellAlice),
              PatientRow(TextCell(Cell000123), CellCarol) >>)
\* The identifier column only, no rows.
EmptyMasterData == Workbook({PatientIDCol, NameCol}, <<>>)
\* A workbook without the identifier column.
NoIdColumn == Workbook({NameCol}, << (NameCol :> TextCell(CellAlice)) >>)
\* A file pandas cannot read.
Unreadable == [readable |-> FALSE, columns |-> {}, rows |-> <<>>]
ExcelSamples == {MasterData, EmptyMasterData, NoIdColumn, Unreadable}

\* 'No discrepancies'
RespSentinel == <<"N","o"," ","d","i","s","c","r","e","p","a","n","c","i","e","s">>
\* ' NO DISCREPANCIES\n'
RespSentinelUpper == <<" ","N","O"," ","D","I","S","C","R","E","P","A","N","C","I","E","S","\n">>
\* "Patient Name: Excel has 'JOHN SMITH', PDF has 'JANE DOE'"
RespMismatch == <<"P","a","t","i","e","n","t"," ","N","a","m","e",":"," ","E","x","c","e","l"," ","h","a","s"," ","'","J","O","H","N"," ","S","M","I","T","H","'",","," ","P","D","F"," ","h","a","s"," ","'","J","A","N","E"," ","D","O","E","'">>
\* "Insurance: Excel has 'BCBS', PDF has 'AETNA'. No discrepancies in dates."
RespMismatchWithPhrase == <<"I","n","s","u","r","a","n","c","e",":"," ","E","x","c","e","l"," ","h","a","s"," ","'","B","C","B","S","'",","," ","P","D","F"," ","h","a","s"," ","'","A","E","T","N","A","'","."," ","N","o"," ","d","i","s","c","r","e","p","a","n","c","i","e","s"," ","i","n"," ","d","a","t","e","s",".">>
\* 'Request timed out'
ErrTimeout == <<"R","e","q","u","e","s","t"," ","t","i","m","e","d"," ","o","u","t">>
\* 'could not send all the data'
ErrWithPhrase == <<"c","o","u","l","d"," ","n","o","t"," ","s","e","n","d"," ","a","l","l"," ","t","h","e"," ","d","a","t","a">>

\* What openai.ChatCompletion.create does on one call: it returns a message
\* content, or raises.
ServiceSamples ==
  { Returns(RespSentinel), Returns(RespSentinelUpper), Returns(RespMismatch),
    Returns(RespMismatchWithPhrase), Raises(ErrTimeout), Raises(ErrWithPhrase) }

-----------------------------------------------------------------------------
(* process_files *)

VARIABLES
  pdf_files,   \* the uploaded PDF files: name and bytes
  excel_file,  \* the uploaded workbook
  df,          \* the table read from it
  reports,     \* the rows collected so far
  i,           \* the number of files the loop has gone through
  pc,          \* "load", "loop" or "done"; "raw_load", "raw_loop", "raw_done" or
               \* "raw_crashed" in the script of Raw.py
  ret,         \* what process_files returned
  calls,       \* every request sent to the comparison service, in order
  \* compare_data_with_ai
  service_reply,  \* what the chat completion call does: a content, or an exception
  reply_parts,    \* how the content is made up: text, a JSON object, text
  returned,       \* the list compare_data_with_ai returned
  logged,         \* the records it logged
  ai_pc,          \* "call" or "done"
  \* process_invoice_batch
  pdf_paths,          \* the documents: path, and what extract_pdf_data makes of it
  master_data_path,   \* the master workbook
  master_data,        \* the table load_master_data returned
  all_discrepancies,  \* the entries collected so far
  invoice_tables,     \* the tables of the document being processed
  doc,                \* the number of documents the loop has gone through
  tbl,                \* the number of tables of the document compared so far
  batch_pc,           \* "load", "doc", "table", "done" or "raised"
  batch_ret,          \* what process_invoice_batch returned, or raised
  batch_log,          \* the logging records and st.error messages, in order
  batch_calls,        \* every call of compare_data_with_ai, in order
  \* generate_report, create_summary_stats
  discrepancy_list,   \* the list both are given
  stats,              \* what create_summary_stats returned, or raised
  report              \* the workbook generate_report wrote, or what it raised

files_vars == <<pdf_files, excel_file, df, reports, i, pc, ret, calls>>
ai_vars == <<service_reply, reply_parts, returned, logged, ai_pc>>
batch_vars == <<pdf_paths, master_data_path, master_data, all_discrepancies, invoice_tables,
                doc, tbl, batch_pc, batch_ret, batch_log, batch_calls>>
report_vars == <<discrepancy_list, stats, report>>
vars == <<files_vars, ai_vars, batch_vars, report_vars>>

\* compare_data_with_ai is not running.
IdleAI ==
  /\ service_reply = None
  /\ reply_parts = None
  /\ returned = None
  /\ logged = <<>>
  /\ ai_pc = "idle"

\* process_invoice_batch is not running.
IdleBatch ==
  /\ pdf_paths = <<>>
  /\ master_data_path = [readable |-> FALSE, columns |-> {}, rows |-> <<>>]
  /\ master_data = [columns |-> {}, rows |-> <<>>]
  /\ all_discrepancies = <<>>
  /\ invoice_tables = <<>>
  /\ doc = 0
  /\ tbl = 0
  /\ batch_pc = "idle"
  /\ batch_ret = None
  /\ batch_log = <<>>
  /\ batch_calls = <<>>

\* No report is being built.
IdleReport ==
  /\ discrepancy_list = <<>>
  /\ stats = None
  /\ report = None

\* "\n".join(page.get_text() for page in doc)
RECURSIVE join(_, _)
join(sep, parts) ==
  IF parts = <<>> THEN <<>>
  ELSE IF Len(parts) = 1 THEN parts[1]
  ELSE parts[1] \o sep \o join(sep, Tail(parts))

extract_text_from_pdf(file_bytes) ==
  IF file_bytes.valid THEN Returns(join(<<"\n">>, file_bytes.pages))
  ELSE Raises(ErrCorruptPdf)

\* dtype=str on a cell.
astype_str(cell) == IF "num" \in DOMAIN cell THEN str(cell.num) ELSE cell.text

\* pd.read_excel(excel_file, dtype={"Patient ID": str}): a dtype for a column
\* the workbook does not have is ignored.
read_excel(file) ==
  IF ~file.readable THEN Raises(ErrBadExcel)
  ELSE Returns(
         [columns |-> file.columns,
          rows |-> [k \in 1..Len(file.rows) |->
                      [c \in file.columns |->
                         IF c = PatientIDCol THEN astype_str(file.rows[k][c])
                         ELSE file.rows[k][c]]]])

\* The identifier column compared as numbers: leading zeros do not count.
RECURSIVE lstrip_zeros(_)
lstrip_zeros(s) == IF Len(s) > 1 /\ s[1] = "0" THEN lstrip_zeros(Tail(s)) ELSE s
matching_numeric(table, pid) ==
  SelectSeq(table.rows, LAMBDA r : lstrip_zeros(r[PatientIDCol]) = lstrip_zeros(pid))

\* df[df["Patient ID"] == pid]: the rows, in table order, whose cell equals pid.
matching(table, pid) == SelectSeq(table.rows, LAMBDA r : r[PatientIDCol] = pid)

\* compare_with_gpt sending the request a second time when the first fails.
compare_with_gpt_retry(pdf_text, excel_row, service) ==
  [requests |-> [n \in 1..(IF service.ok THEN 1 ELSE 2) |->
                   [pdf_text |-> SubSeq(pdf_text, 1, IF Len(pdf_text) < MaxPromptChars
                                                     THEN Len(pdf_text) ELSE MaxPromptChars),
                    excel_row |-> excel_row]],
   val |-> IF service.ok THEN strip(service.val)
           ELSE MsgErrorDuringComparison \o service.val]

\* compare_with_gpt: one request; the stripped content, or the error text.
compare_with_gpt(pdf_text, excel_row, service) ==
  [requests |-> << [pdf_text |-> SubSeq(pdf_text, 1, IF Len(pdf_text) < MaxPromptChars
                                                     THEN Len(pdf_text) ELSE MaxPromptChars),
                    excel_row |-> excel_row] >>,
   val |-> IF service.ok THEN strip(service.val)
           ELSE MsgErrorDuringComparison \o service.val]

\* The clean-up searching the response as it is, without lower().
clean_up_case_sensitive(discrepancies) ==
  IF contains(PhraseNoDiscrepancies, discrepancies)
     \/ contains(PhraseAllTheData, discrepancies)
    THEN [clean_discrepancies |-> NoDiscrepancies, status |-> "Clean"]
  ELSE IF contains(PhraseErrorDuringComparison, discrepancies)
    THEN [clean_discrepancies |-> discrepancies, status |-> "Error"]
  ELSE [clean_discrepancies |-> discrepancies, status |-> "Data Error"]

\* "Clean up response"
clean_up(discrepancies) ==
  IF contains(PhraseNoDiscrepancies, lower(discrepancies))
     \/ contains(PhraseAllTheData, lower(discrepancies))
    THEN [clean_discrepancies |-> NoDiscrepancies, status |-> "Clean"]
  ELSE IF contains(PhraseErrorDuringComparison, discrepancies)
    THEN [clean_discrepancies |-> discrepancies, status |-> "Error"]
  ELSE [clean_discrepancies |-> discrepancies, status |-> "Data Error"]

Row(pid, name, errors, status) ==
  [PatientID |-> pid, PDFFile |-> name, DataErrors |-> errors, Status |-> status]

\* reports.insert(0, row)
insert_first(list, row) == <<row>> \o list

\* reports.append(row)
append(list, row) == Append(list, row)

\* The try block of the loop for one file: the list after it, the requests
\* it sent, and the exception that left it, if any.
Falls(list, requests) == [reports |-> list, requests |-> requests, raised |-> FALSE, msg |-> <<>>]
Throws(list, requests, msg) == [reports |-> list, requests |-> requests, raised |-> TRUE, msg |-> msg]

\* "Compare with GPT" and "Clean up response": the row of a compared file.
compared(list, pdf_file, pid, answer, cleaned) ==
  Falls(append(list, Row(pid, pdf_file.name, cleaned.clean_discrepancies, cleaned.status)),
        answer.requests)

compare(list, pdf_file, pid, answer) ==
  compared(list, pdf_file, pid, answer, clean_up(answer.val))

\* "Find matching record in Excel", given df[df["Patient ID"] == pid].
with_records(list, pdf_file, service, txt, pid, matching_records) ==
  IF matching_records = <<>>
    THEN Falls(append(list, Row(pid, pdf_file.name,
                                MsgPatientID \o pid \o MsgNotInExcel, "Error")), <<>>)
    ELSE compare(list, pdf_file, pid,
                 compare_with_gpt(txt, matching_records[1], service))

\* The loop going on to the next file without a row when no identifier is
\* found, as the command-line script does.
with_pid_no_row(list, table, pdf_file, service, txt, pid) ==
  IF ~pid.some \/ pid.val = <<>>
    THEN Falls(list, <<>>)
  ELSE IF PatientIDCol \notin table.columns
    THEN Throws(list, <<>>, KeyErrorPatientID)
  ELSE with_records(list, pdf_file, service, txt, pid.val, matching(table, pid.val))

\* "Find Patient ID", given the result of find_patient_id(txt).
with_pid(list, table, pdf_file, service, txt, pid) ==
  IF ~pid.some \/ pid.val = <<>>
    THEN Falls(append(list, Row(NotFound, pdf_file.name, MsgIdNotFound, "Error")), <<>>)
  ELSE IF PatientIDCol \notin table.columns
    THEN Throws(list, <<>>, KeyErrorPatientID)
  ELSE with_records(list, pdf_file, service, txt, pid.val, matching(table, pid.val))

\* "Extract text from PDF", given the outcome of extract_text_from_pdf.
with_text(list, table, pdf_file, service, txt) ==
  IF ~txt.ok THEN Throws(list, <<>>, txt.val)
  ELSE with_pid(list, table, pdf_file, service, txt.val, find_patient_id(txt.val))

try_block(list, table, pdf_file, service) ==
  with_text(list, table, pdf_file, service, extract_text_from_pdf(pdf_file.bytes))

\* The except block: one row for the exception that left the try block.
except_block(t, pdf_file) ==
  [reports |-> IF t.raised
                 THEN append(t.reports, Row(ErrorID, pdf_file.name,
                                            MsgProcessingError \o t.msg, "Error"))
                 ELSE t.reports,
   requests |-> t.requests]

\* One pass of the loop, try and except.
loop_body(list, table, pdf_file, service) ==
  except_block(try_block(list, table, pdf_file, service), pdf_file)

NoFrame == [kind |-> "pending", rows |-> <<>>]

Uploads ==
  UNION { [1..n -> PdfSamples] : n \in 0..MaxDocs }

Init ==
  /\ \E bytes \in Uploads :
       pdf_files = [k \in DOMAIN bytes |-> [name |-> FileName(k), bytes |-> bytes[k]]]
  /\ excel_file \in ExcelSamples
  /\ df = [columns |-> {}, rows |-> <<>>]
  /\ reports = <<>>
  /\ i = 0
  /\ pc = "load"
  /\ ret = NoFrame
  /\ calls = <<>>
  /\ IdleAI
  /\ IdleBatch
  /\ IdleReport

\* df = pd.read_excel(...); on an exception st.error and return None.
LoadExcel ==
  /\ pc = "load"
  /\ LET r == read_excel(excel_file)
     IN  IF r.ok
           THEN /\ df' = r.val
                /\ pc' = "loop"
                /\ ret' = ret
           ELSE /\ df' = df
                /\ pc' = "done"
                /\ ret' = [kind |-> "None", rows |-> <<>>]
  /\ UNCHANGED <<pdf_files, excel_file, reports, i, calls, ai_vars, batch_vars, report_vars>>

\* for i, pdf_file in enumerate(pdf_files): one file.
ProcessFile ==
  /\ pc = "loop"
  /\ i < Len(pdf_files)
  /\ \E service \in ServiceSamples :
       \E b \in {loop_body(reports, df, pdf_files[i + 1], service)} :
           /\ reports' = b.reports
           /\ calls' = calls \o [k \in 1..Len(b.requests) |->
                                   [doc |-> i + 1, request |-> b.requests[k], service |-> service]]
  /\ i' = i + 1
  /\ UNCHANGED <<pdf_files, excel_file, df, pc, ret, ai_vars, batch_vars, report_vars>>

\* return pd.DataFrame(reports)
ReturnFrame ==
  /\ pc = "loop"
  /\ i = Len(pdf_files)
  /\ ret' = [kind |-> "DataFrame", rows |-> reports]
  /\ pc' = "done"
  /\ UNCHANGED <<pdf_files, excel_file, df, reports, i, calls, ai_vars, batch_vars, report_vars>>

Next == LoadExcel \/ ProcessFile \/ ReturnFrame

Spec == Init /\ [][Next]_vars

-----------------------------------------------------------------------------
(* json: the values, json.loads, json.dumps *)

\* Largest number of entries in the discrepancies array of a sampled response.
MaxEntries == 2

\* Python values read from JSON: str, int, list, dict (its items in insertion
\* order), and True, False, None.
JStr(s) == [str |-> s]
JInt(n) == [int |-> n]
JList(xs) == [list |-> xs]
JDict(items) == [dict |-> items]
JLit(name) == [lit |-> name]
Item(key, value) == [key |-> key, value |-> value]

\* 'true'
LitTrue == <<"t","r","u","e">>
\* 'false'
LitFalse == <<"f","a","l","s","e">>
\* 'null'
LitNull == <<"n","u","l","l">>
\* str(json.JSONDecodeError)
JSONDecodeError == <<"E","x","p","e","c","t","i","n","g"," ","v","a","l","u","e">>

\* d[key] = value
dict_set(items, key, value) ==
  IF \E n \in 1..Len(items) : items[n].key = key
    THEN [n \in 1..Len(items) |-> IF items[n].key = key THEN Item(key, value) ELSE items[n]]
    ELSE Append(items, Item(key, value))

\* d.get(key, default)
dict_get(d, key, default) ==
  IF \E n \in 1..Len(d.dict) : d.dict[n].key = key
    THEN d.dict[CHOOSE n \in 1..Len(d.dict) : d.dict[n].key = key].value
    ELSE default

\* int(s) of a digit string.
RECURSIVE int(_)
int(s) ==
  IF s = <<>> THEN 0
  ELSE 10 * int(SubSeq(s, 1, Len(s) - 1))
       + ((CHOOSE d \in 1..Len(Digits) : Digits[d] = s[Len(s)]) - 1)

\* The result of scanning one JSON value: the value and the index after it.
NoScan == [ok |-> FALSE, val |-> <<>>, next |-> 0]
Scan(v, k) == [ok |-> TRUE, val |-> v, next |-> k]

\* A string literal whose opening quote is s[k]. Escapes are not modelled: a
\* backslash is refused, like a control character.
scan_string(s, k) ==
  LET closing == {j \in (k + 1)..Len(s) : s[j] = "\""}
      j == CHOOSE a \in closing : \A b \in closing : a <= b
  IN  IF closing = {} THEN NoScan
      ELSE IF \E m \in (k + 1)..(j - 1) : s[m] \in {"\\", "\n", "\t", "\r"} THEN NoScan
      ELSE Scan(JStr(SubSeq(s, k + 1, j - 1)), j + 1)

\* An integer literal at s[k]: -?(0|[1-9][0-9]*). Fractions and exponents
\* are not modelled and are refused.
scan_number(s, k) ==
  LET a == IF s[k] = "-" THEN k + 1 ELSE k
      b == IF a <= Len(s) /\ s[a] = "0" THEN a + 1 ELSE SkipDigits(s, a)
  IN  IF b = a THEN NoScan
      ELSE IF b <= Len(s) /\ s[b] \in {".", "e", "E"} THEN NoScan
      ELSE Scan(JInt(IF a = k THEN int(SubSeq(s, a, b - 1)) ELSE 0 - int(SubSeq(s, a, b - 1))), b)

\* Whether s holds exactly the characters of word at index k.
WordAt(s, k, word) == k + Len(word) - 1 <= Len(s) /\ SubSeq(s, k, k + Len(word) - 1) = word

RECURSIVE scan_value(_, _), scan_elements(_, _, _), scan_members(_, _, _)

\* The rest of an array after the element v: "," and more, or "]".
after_element(s, acc, v, j) ==
  IF ~v.ok \/ j > Len(s) THEN NoScan
  ELSE IF s[j] = "," THEN scan_elements(s, j + 1, Append(acc, v.val))
  ELSE IF s[j] = "]" THEN Scan(JList(Append(acc, v.val)), j + 1)
  ELSE NoScan

after_value(s, acc, v) ==
  after_element(s, acc, v, IF v.ok THEN SkipSpaces(s, v.next) ELSE 0)

\* The elements of an array from index k on, acc the elements before.
scan_elements(s, k, acc) == after_value(s, acc, scan_value(s, k))

\* The rest of an object after the member key: v, "," and more, or "}".
after_member(s, acc, key, v, j) ==
  IF ~v.ok \/ j > Len(s) THEN NoScan
  ELSE IF s[j] = "," THEN scan_members(s, j + 1, dict_set(acc, key, v.val))
  ELSE IF s[j] = "}" THEN Scan(JDict(dict_set(acc, key, v.val)), j + 1)
  ELSE NoScan

after_member_value(s, acc, key, v) ==
  after_member(s, acc, key, v, IF v.ok THEN SkipSpaces(s, v.next) ELSE 0)

after_key(s, acc, key, c) ==
  IF ~key.ok \/ c > Len(s) \/ s[c] # ":" THEN NoScan
  ELSE after_member_value(s, acc, key.val.str, scan_value(s, c + 1))

after_key_string(s, acc, key) ==
  after_key(s, acc, key, IF key.ok THEN SkipSpaces(s, key.next) ELSE 0)

member_at(s, a, acc) ==
  IF a > Len(s) \/ s[a] # "\"" THEN NoScan
  ELSE after_key_string(s, acc, scan_string(s, a))

\* The members of an object from index k on, acc the items before.
scan_members(s, k, acc) == member_at(s, SkipSpaces(s, k), acc)

\* One value at index k, whitespace before it skipped.
value_at(s, k, j) ==
  IF k > Len(s) THEN NoScan
  ELSE IF s[k] = "\"" THEN scan_string(s, k)
  ELSE IF s[k] = "{"
    THEN IF j <= Len(s) /\ s[j] = "}" THEN Scan(JDict(<<>>), j + 1) ELSE scan_members(s, j, <<>>)
  ELSE IF s[k] = "["
    THEN IF j <= Len(s) /\ s[j] = "]" THEN Scan(JList(<<>>), j + 1) ELSE scan_elements(s, j, <<>>)
  ELSE IF s[k] = "-" \/ IsDigit(s[k]) THEN scan_number(s, k)
  ELSE IF WordAt(s, k, LitTrue) THEN Scan(JLit("True"), k + Len(LitTrue))
  ELSE IF WordAt(s, k, LitFalse) THEN Scan(JLit("False"), k + Len(LitFalse))
  ELSE IF WordAt(s, k, LitNull) THEN Scan(JLit("None"), k + Len(LitNull))
  ELSE NoScan

skipped_value(s, k) == value_at(s, k, SkipSpaces(s, k + 1))

scan_value(s, k) == skipped_value(s, SkipSpaces(s, k))

\* json.loads(s): one value with nothing but whitespace around it, or
\* JSONDecodeError.
loaded(s, v) ==
  IF v.ok /\ SkipSpaces(s, v.next) > Len(s) THEN Returns(v.val) ELSE Raises(JSONDecodeError)

loads(s) == loaded(s, scan_value(s, 1))

\* json.dumps(value), with its default separators.
RECURSIVE dumps(_), dumps_items(_), dumps_elements(_)
dumps_elements(xs) ==
  IF xs = <<>> THEN <<>>
  ELSE IF Len(xs) = 1 THEN dumps(xs[1])
  ELSE dumps(xs[1]) \o <<",", " ">> \o dumps_elements(Tail(xs))
dumps_items(items) ==
  IF items = <<>> THEN <<>>
  ELSE <<"\"">> \o items[1].key \o <<"\"", ":", " ">> \o dumps(items[1].value)
       \o (IF Len(items) = 1 THEN <<>> ELSE <<",", " ">> \o dumps_items(Tail(items)))
dumps(value) ==
  IF "str" \in DOMAIN value THEN <<"\"">> \o value.str \o <<"\"">>
  ELSE IF "int" \in DOMAIN value
    THEN IF value.int < 0 THEN <<"-">> \o str(0 - value.int) ELSE str(value.int)
  ELSE IF "list" \in DOMAIN value THEN <<"[">> \o dumps_elements(value.list) \o <<"]">>
  ELSE IF "dict" \in DOMAIN value THEN <<"{">> \o dumps_items(value.dict) \o <<"}">>
  ELSE IF value.lit = "True" THEN LitTrue
  ELSE IF value.lit = "False" THEN LitFalse
  ELSE LitNull

-----------------------------------------------------------------------------
(* InvoiceProcessor.compare_data_with_ai *)

\* 'discrepancies'
KeyDiscrepancies == <<"d","i","s","c","r","e","p","a","n","c","i","e","s">>
\* 'No JSON found in AI response'
LogNoJson == <<"N","o"," ","J","S","O","N"," ","f","o","u","n","d"," ","i","n"," ","A","I"," ","r","e","s","p","o","n","s","e">>
\* 'Error parsing AI response as JSON: '
LogParseError == <<"E","r","r","o","r"," ","p","a","r","s","i","n","g"," ","A","I"," ","r","e","s","p","o","n","s","e"," ","a","s"," ","J","S","O","N",":"," ">>
\* 'AI Response: '
LogAiResponse == <<"A","I"," ","R","e","s","p","o","n","s","e",":"," ">>
\* 'Error in AI comparison: '
LogAiError == <<"E","r","r","o","r"," ","i","n"," ","A","I"," ","c","o","m","p","a","r","i","s","o","n",":"," ">>

\* One logging record.
Log(level, message) == [level |-> level, message |-> message]

\* re.search(r'\{.*\}', ai_response, re.DOTALL).group(): from the first "{"
\* to the last "}" after it.
search_braces(ai_response) ==
  LET opens == {k \in 1..Len(ai_response) : ai_response[k] = "{"}
      first == CHOOSE a \in opens : \A b \in opens : a <= b
      closes == {k \in (first + 1)..Len(ai_response) : ai_response[k] = "}"}
  IN  IF opens = {} \/ closes = {} THEN None
      ELSE Some(SubSeq(ai_response, first, CHOOSE a \in closes : \A b \in closes : b <= a))

\* What compare_data_with_ai returns and logs.
Outcome(list, records) == [discrepancies |-> list, logged |-> records]

\* result = json.loads(json_str); discrepancies = result.get('discrepancies', [])
parsed_json(ai_response, result) ==
  IF result.ok
    THEN Outcome(dict_get(result.val, KeyDiscrepancies, JList(<<>>)), <<>>)
    ELSE Outcome(JList(<<>>), << Log("error", LogParseError \o result.val),
                                 Log("error", LogAiResponse \o ai_response) >>)

\* The extraction saying nothing when it finds no JSON.
extract_json_unlogged(ai_response, json_match) ==
  IF json_match.some /\ loads(json_match.val).ok
    THEN Outcome(dict_get(loads(json_match.val).val, KeyDiscrepancies, JList(<<>>)), <<>>)
    ELSE Outcome(JList(<<>>), <<>>)

\* "Try to extract JSON from the response"
extract_json(ai_response, json_match) ==
  IF json_match.some
    THEN parsed_json(ai_response, loads(json_match.val))
    ELSE Outcome(JList(<<>>), << Log("warning", LogNoJson) >>)

parse_response(ai_response) == extract_json(ai_response, search_braces(ai_response))

\* The whole function, given what the chat completion call does.
compare_data_with_ai(service) ==
  IF service.ok
    THEN parse_response(strip(service.val))
    ELSE Outcome(JList(<<>>), << Log("error", LogAiError \o service.val) >>)

\* The sampled responses: text, a JSON object with a discrepancies array,
\* text.
\* 'item_name'
KeyItemName == <<"i","t","e","m","_","n","a","m","e">>
\* 'amount_difference'
KeyAmountDifference == <<"a","m","o","u","n","t","_","d","i","f","f","e","r","e","n","c","e">>
\* 'description'
KeyDescription == <<"d","e","s","c","r","i","p","t","i","o","n">>
\* 'bolt'
ItemBolt == <<"b","o","l","t">>
\* 'nut'
ItemNut == <<"n","u","t">>
\* 'gear'
ItemGear == <<"g","e","a","r">>
\* '-20'
AmountMinus20 == <<"-","2","0">>
\* 'not in master data'
DescMissing == <<"n","o","t"," ","i","n"," ","m","a","s","t","e","r"," ","d","a","t","a">>
\* 'Here is the result: '
LeadProse == <<"H","e","r","e"," ","i","s"," ","t","h","e"," ","r","e","s","u","l","t",":"," ">>
\* 'Comparing {invoice} rows: '
LeadBraces == <<"C","o","m","p","a","r","i","n","g"," ","{","i","n","v","o","i","c","e","}"," ","r","o","w","s",":"," ">>
\* '\nLet me know if you need more.'
TrailProse == <<"\n","L","e","t"," ","m","e"," ","k","n","o","w"," ","i","f"," ","y","o","u"," ","n","e","e","d"," ","m","o","r","e",".">>
\* ' (see {note})'
TrailBraces == <<" ","(","s","e","e"," ","{","n","o","t","e","}",")">>
\* '\n{"status": "done"}'
TrailObject == <<"\n","{","\"","s","t","a","t","u","s","\"",":"," ","\"","d","o","n","e","\"","}">>
\* 'Rate limit reached'
ErrRateLimit == <<"R","a","t","e"," ","l","i","m","i","t"," ","r","e","a","c","h","e","d">>

EntrySamples ==
  { JDict(<< Item(KeyItemName, JStr(ItemBolt)), Item(KeyAmountDifference, JInt(10)) >>),
    JDict(<< Item(KeyItemName, JStr(ItemNut)), Item(KeyAmountDifference, JStr(AmountMinus20)) >>),
    JDict(<< Item(KeyItemName, JStr(ItemGear)), Item(KeyDescription, JStr(DescMissing)) >>) }
EntryLists == UNION { [1..n -> EntrySamples] : n \in 0..MaxEntries }
LeadSamples == { <<>>, LeadProse, LeadBraces }
TrailSamples == { <<>>, TrailProse, TrailBraces, TrailObject }
ReplyParts ==
  { [lead |-> lead, object |-> JDict(<< Item(KeyDiscrepancies, JList(entries)) >>), trail |-> trail] :
      lead \in LeadSamples, entries \in EntryLists, trail \in TrailSamples }
\* The content made of the three parts.
Content(parts) == parts.lead \o dumps(parts.object) \o parts.trail

\* process_files is not running.
IdleFiles ==
  /\ pdf_files = <<>>
  /\ excel_file = Unreadable
  /\ df = [columns |-> {}, rows |-> <<>>]
  /\ reports = <<>>
  /\ i = 0
  /\ pc = "idle"
  /\ ret = NoFrame
  /\ calls = <<>>

InitAI ==
  /\ IdleFiles
  /\ IdleBatch
  /\ IdleReport
  /\ \/ \E parts \in ReplyParts :
          /\ reply_parts = Some(parts)
          /\ service_reply = Returns(Content(parts))
     \/ /\ reply_parts = None
        /\ service_reply = Raises(ErrRateLimit)
  /\ returned = None
  /\ logged = <<>>
  /\ ai_pc = "call"

\* One call of compare_data_with_ai.
CompareDataWithAI ==
  /\ ai_pc = "call"
  /\ \E out \in {compare_data_with_ai(service_reply)} :
       /\ returned' = Some(out.discrepancies)
       /\ logged' = out.logged
  /\ ai_pc' = "done"
  /\ UNCHANGED <<files_vars, batch_vars, report_vars, service_reply, reply_parts>>

NextAI == CompareDataWithAI

SpecAI == InitAI /\ [][NextAI]_vars

-----------------------------------------------------------------------------
(* InvoiceProcessor.extract_pdf_data and load_master_data *)

\* 'col_'
ColPrefix == <<"c","o","l","_">>
\* 'source_page'
ColSourcePage == <<"s","o","u","r","c","e","_","p","a","g","e">>
\* 'source_table'
ColSourceTable == <<"s","o","u","r","c","e","_","t","a","b","l","e">>
\* 'source_file'
KeySourceFile == <<"s","o","u","r","c","e","_","f","i","l","e">>
\* 'No /Root object! - Is this really a PDF?'
ErrNoPdf == <<"N","o"," ","/","R","o","o","t"," ","o","b","j","e","c","t","!"," ","-"," ","I","s"," ","t","h","i","s"," ","r","e","a","l","l","y"," ","a"," ","P","D","F","?">>

\* pdf_path.split('/')[-1]
file_name(pdf_path) ==
  LET slashes == {k \in 1..Len(pdf_path) : pdf_path[k] = "/"}
  IN  IF slashes = {} THEN pdf_path
      ELSE SubSeq(pdf_path, (CHOOSE a \in slashes : \A b \in slashes : b <= a) + 1, Len(pdf_path))

\* str(col).strip().lower() if col else f'col_{i}', for a header cell that
\* is a text or None.
clean_column(col, n) ==
  IF col.some /\ col.val # <<>> THEN lower(strip(col.val)) ELSE ColPrefix \o str(n)

\* A DataFrame: its columns and rows; the source columns, which hold one
\* value in every row, are kept beside the rows.
DataFrame(columns, rows, page_num, table_num, name) ==
  [columns |-> columns, rows |-> rows,
   source_page |-> page_num, source_table |-> table_num, source_file |-> name]

\* The frame of one extracted table: header cleaned, metadata added.
table_frame(table, page_num, table_num, name) ==
  DataFrame([n \in 1..Len(table[1]) |-> clean_column(table[1][n], n - 1)]
              \o <<ColSourcePage, ColSourceTable, KeySourceFile>>,
            Tail(table), page_num, Some(table_num), name)

\* The frames of the tables of one page from table n on: a table needs a
\* header and data.
RECURSIVE table_frames(_, _, _, _)
table_frames(tables, n, page_num, name) ==
  IF n > Len(tables) THEN <<>>
  ELSE (IF Len(tables[n]) > 1 THEN << table_frame(tables[n], page_num, n, name) >> ELSE <<>>)
       \o table_frames(tables, n + 1, page_num, name)

\* The frames of one page: its tables, or the rows parsed from its text,
\* page.parsed being what _parse_text_for_invoice_data makes of the text.
page_frames(page, page_num, name) ==
  IF page.tables # <<>> THEN table_frames(page.tables, 1, page_num, name)
  ELSE IF page.parsed.rows # <<>>
    THEN << DataFrame(page.parsed.columns \o <<ColSourcePage, KeySourceFile>>,
                      page.parsed.rows, page_num, None, name) >>
  ELSE <<>>

RECURSIVE pdf_frames(_, _, _)
pdf_frames(pages, n, name) ==
  IF n > Len(pages) THEN <<>>
  ELSE page_frames(pages[n], n, name) \o pdf_frames(pages, n + 1, name)

\* extract_pdf_data: the frames, or the exception of pdfplumber.open raised
\* again.
extract_pdf_data(pdf) ==
  IF pdf.opens THEN Returns(pdf_frames(pdf.pages, 1, file_name(pdf.path)))
  ELSE Raises(ErrNoPdf)

\* load_master_data: pd.read_excel(excel_path), the column names cleaned.
load_master_data(excel) ==
  IF ~excel.readable THEN Raises(ErrBadExcel)
  ELSE Returns(
         [columns |-> {lower(strip(c)) : c \in excel.columns},
          rows |-> [k \in 1..Len(excel.rows) |->
                      [c \in {lower(strip(col)) : col \in excel.columns} |->
                         excel.rows[k][CHOOSE col \in excel.columns : lower(strip(col)) = c]]]])

\* master_data.head(20)
MasterHeadRows == 20
head(table, n) ==
  [columns |-> table.columns,
   rows |-> SubSeq(table.rows, 1, IF Len(table.rows) < n THEN Len(table.rows) ELSE n)]

-----------------------------------------------------------------------------
(* InvoiceProcessor.process_invoice_batch *)

\* 'Extracted '
LogExtracted == <<"E","x","t","r","a","c","t","e","d"," ">>
\* ' tables from '
LogTablesFrom == <<" ","t","a","b","l","e","s"," ","f","r","o","m"," ">>
\* 'Error extracting PDF data from '
LogExtractError == <<"E","r","r","o","r"," ","e","x","t","r","a","c","t","i","n","g"," ","P","D","F"," ","d","a","t","a"," ","f","r","o","m"," ">>
\* 'Loaded master data with '
LogLoaded == <<"L","o","a","d","e","d"," ","m","a","s","t","e","r"," ","d","a","t","a"," ","w","i","t","h"," ">>
\* ' records'
LogRecords == <<" ","r","e","c","o","r","d","s">>
\* 'Error loading master data from '
LogLoadError == <<"E","r","r","o","r"," ","l","o","a","d","i","n","g"," ","m","a","s","t","e","r"," ","d","a","t","a"," ","f","r","o","m"," ">>
\* 'Error processing '
LogProcessError == <<"E","r","r","o","r"," ","p","r","o","c","e","s","s","i","n","g"," ">>
\* 'Error in batch processing: '
LogBatchError == <<"E","r","r","o","r"," ","i","n"," ","b","a","t","c","h"," ","p","r","o","c","e","s","s","i","n","g",":"," ">>
\* ': '
ColonSpace == <<":"," ">>
\* 'str'
TypeStr == <<"s","t","r">>
\* 'int'
TypeInt == <<"i","n","t">>
\* 'NoneType'
TypeNone == <<"N","o","n","e","T","y","p","e">>
\* 'bool'
TypeBool == <<"b","o","o","l">>
\* 'list'
TypeList == <<"l","i","s","t">>
\* 'dict'
TypeDict == <<"d","i","c","t">>
\* "' object is not iterable"
MsgNotIterable == <<"'"," ","o","b","j","e","c","t"," ","i","s"," ","n","o","t"," ","i","t","e","r","a","b","l","e">>
\* "' object does not support item assignment"
MsgNoItemAssignment == <<"'"," ","o","b","j","e","c","t"," ","d","o","e","s"," ","n","o","t"," ","s","u","p","p","o","r","t"," ","i","t","e","m"," ","a","s","s","i","g","n","m","e","n","t">>
\* 'list indices must be integers or slices, not str'
MsgListIndices == <<"l","i","s","t"," ","i","n","d","i","c","e","s"," ","m","u","s","t"," ","b","e"," ","i","n","t","e","g","e","r","s"," ","o","r"," ","s","l","i","c","e","s",","," ","n","o","t"," ","s","t","r">>

\* type(v).__name__
TypeName(v) ==
  IF "str" \in DOMAIN v THEN TypeStr
  ELSE IF "int" \in DOMAIN v THEN TypeInt
  ELSE IF "list" \in DOMAIN v THEN TypeList
  ELSE IF "dict" \in DOMAIN v THEN TypeDict
  ELSE IF v.lit = "None" THEN TypeNone
  ELSE TypeBool

\* What "for disc in discrepancies" goes through: the elements of a list,
\* the keys of a dict, the characters of a str; anything else raises
\* TypeError.
iterated(value) ==
  IF "list" \in DOMAIN value THEN Returns(value.list)
  ELSE IF "dict" \in DOMAIN value
    THEN Returns([n \in 1..Len(value.dict) |-> JStr(value.dict[n].key)])
  ELSE IF "str" \in DOMAIN value
    THEN Returns([n \in 1..Len(value.str) |-> JStr(<<value.str[n]>>)])
  ELSE Raises(<<"'">> \o TypeName(value) \o MsgNotIterable)

\* disc.setdefault('source_file', name): the value of the response kept.
set_source_file_default(disc, name) ==
  IF "dict" \in DOMAIN disc
    THEN Returns(JDict(IF \E n \in 1..Len(disc.dict) : disc.dict[n].key = KeySourceFile
                         THEN disc.dict
                         ELSE dict_set(disc.dict, KeySourceFile, JStr(name))))
  ELSE IF "list" \in DOMAIN disc THEN Raises(MsgListIndices)
  ELSE Raises(<<"'">> \o TypeName(disc) \o MsgNoItemAssignment)

\* disc['source_file'] = name: an assignment in a dict; TypeError otherwise.
set_source_file(disc, name) ==
  IF "dict" \in DOMAIN disc THEN Returns(JDict(dict_set(disc.dict, KeySourceFile, JStr(name))))
  ELSE IF "list" \in DOMAIN disc THEN Raises(MsgListIndices)
  ELSE Raises(<<"'">> \o TypeName(disc) \o MsgNoItemAssignment)

\* "Add source information to each discrepancy": the entries after the
\* loop, or the TypeError that left it.
RECURSIVE add_source(_, _, _)
source_set(items, name, acc, r) ==
  IF r.ok THEN add_source(Tail(items), name, Append(acc, r.val)) ELSE r
add_source(items, name, acc) ==
  IF items = <<>> THEN Returns(acc)
  ELSE source_set(items, name, acc, set_source_file(items[1], name))

source_added(it, name) == IF it.ok THEN add_source(it.val, name, <<>>) ELSE it

\* The entries put before those collected so far.
extend_front(list, entries) == entries \o list

\* all_discrepancies.extend(discrepancies)
extend(list, entries) == list \o entries

\* The records logged by extract_pdf_data for the outcome r.
extract_log(pdf_path, r) ==
  IF r.ok
    THEN << Log("info", LogExtracted \o str(Len(r.val)) \o LogTablesFrom \o pdf_path) >>
    ELSE << Log("error", LogExtractError \o pdf_path \o ColonSpace \o r.val) >>

\* The except block of the loop: logger.error and st.error.
except_log(pdf_path, msg) ==
  << Log("error", LogProcessError \o pdf_path \o ColonSpace \o msg),
     Log("st.error", LogProcessError \o file_name(pdf_path) \o ColonSpace \o msg) >>

\* The sampled documents, by what pdfplumber makes of them, and their paths
\* by their place in the batch.
\* 'uploads/inv_a.pdf'
PathInvA == <<"u","p","l","o","a","d","s","/","i","n","v","_","a",".","p","d","f">>
\* 'inv_b.pdf'
PathInvB == <<"i","n","v","_","b",".","p","d","f">>
\* '/tmp/in/inv_c.pdf'
PathInvC == <<"/","t","m","p","/","i","n","/","i","n","v","_","c",".","p","d","f">>
\* 'master.xlsx'
MasterPath == <<"m","a","s","t","e","r",".","x","l","s","x">>
\* 'Item'
ColItem == <<"I","t","e","m">>
\* ' Price '
ColPrice == <<" ","P","r","i","c","e"," ">>
\* 'item'
ColTextItem == <<"i","t","e","m">>
\* 'unit_price'
ColUnitPrice == <<"u","n","i","t","_","p","r","i","c","e">>
\* 'total_price'
ColTotalPrice == <<"t","o","t","a","l","_","p","r","i","c","e">>
PathSamples == <<PathInvA, PathInvB, PathInvC>>
PdfPath(k) == PathSamples[((k - 1) % Len(PathSamples)) + 1]

Page(tables, parsed) == [tables |-> tables, parsed |-> parsed]
NoParsed == [columns |-> <<>>, rows |-> <<>>]
ParsedRows ==
  [columns |-> <<ColTextItem, ColUnitPrice, ColTotalPrice>>, rows |-> << <<"washer", "2", "4">> >>]
TablePrices == << <<Some(ColItem), Some(ColPrice)>>, <<"bolt", "12">>, <<"nut", "3">> >>
TableHeaderOnly == << <<Some(ColItem), Some(ColPrice)>> >>
TableNoHeader == << <<Some(ColItem), None>>, <<"gear", "7">> >>
PdfContents ==
  { [opens |-> FALSE, pages |-> <<>>],                        \* pdfplumber.open raises
    [opens |-> TRUE, pages |-> << Page(<<>>, NoParsed) >>],   \* no table
    [opens |-> TRUE, pages |-> << Page(<<TablePrices>>, NoParsed) >>],   \* one table
    [opens |-> TRUE, pages |-> << Page(<<TableHeaderOnly, TableNoHeader>>, NoParsed),
                                  Page(<<>>, ParsedRows) >>] }           \* two tables

MasterPrices ==
  Workbook({ColItem, ColPrice},
           << (ColItem :> TextCell(ItemBolt)) @@ (ColPrice :> NumCell(10)),
              (ColItem :> TextCell(ItemNut)) @@ (ColPrice :> NumCell(3)) >>)
MasterSamples == {MasterPrices, Unreadable}

\* What the chat completion call does for one table.
\* 'other.pdf'
OtherFile == <<"o","t","h","e","r",".","p","d","f">>
\* '{"discrepancies": [{"item_name": "bolt", "amount_difference": 10, "source_file": "other.pdf"}, {"item_name": "nut", "amount_difference": "-20"}]}'
ReplyTwoEntries == <<"{","\"","d","i","s","c","r","e","p","a","n","c","i","e","s","\"",":"," ","[","{","\"","i","t","e","m","_","n","a","m","e","\"",":"," ","\"","b","o","l","t","\"",","," ","\"","a","m","o","u","n","t","_","d","i","f","f","e","r","e","n","c","e","\"",":"," ","1","0",","," ","\"","s","o","u","r","c","e","_","f","i","l","e","\"",":"," ","\"","o","t","h","e","r",".","p","d","f","\"","}",","," ","{","\"","i","t","e","m","_","n","a","m","e","\"",":"," ","\"","n","u","t","\"",","," ","\"","a","m","o","u","n","t","_","d","i","f","f","e","r","e","n","c","e","\"",":"," ","\"","-","2","0","\"","}","]","}">>
\* 'Nothing differs.\n{"discrepancies": []}'
ReplyNoEntries == <<"N","o","t","h","i","n","g"," ","d","i","f","f","e","r","s",".","\n","{","\"","d","i","s","c","r","e","p","a","n","c","i","e","s","\"",":"," ","[","]","}">>
\* 'The invoice matches the master data.'
ReplyNoJson == <<"T","h","e"," ","i","n","v","o","i","c","e"," ","m","a","t","c","h","e","s"," ","t","h","e"," ","m","a","s","t","e","r"," ","d","a","t","a",".">>
\* '{"discrepancies": [{"item_name": "gear",}]}'
ReplyMalformed == <<"{","\"","d","i","s","c","r","e","p","a","n","c","i","e","s","\"",":"," ","[","{","\"","i","t","e","m","_","n","a","m","e","\"",":"," ","\"","g","e","a","r","\"",",","}","]","}">>
\* '{"discrepancies": [{"item_name": "gear"}, "bolt"]}'
ReplyMixedEntries == <<"{","\"","d","i","s","c","r","e","p","a","n","c","i","e","s","\"",":"," ","[","{","\"","i","t","e","m","_","n","a","m","e","\"",":"," ","\"","g","e","a","r","\"","}",","," ","\"","b","o","l","t","\"","]","}">>
BatchReplies ==
  { Returns(ReplyTwoEntries), Returns(ReplyNoEntries), Returns(ReplyNoJson),
    Returns(ReplyMalformed), Returns(ReplyMixedEntries), Raises(ErrRateLimit) }

Batches == UNION { [1..n -> PdfContents] : n \in 0..MaxDocs }

InitBatch ==
  /\ IdleFiles
  /\ IdleAI
  /\ IdleReport
  /\ \E contents \in Batches :
       pdf_paths = [k \in DOMAIN contents |->
                      [path |-> PdfPath(k), opens |-> contents[k].opens, pages |-> contents[k].pages]]
  /\ master_data_path \in MasterSamples
  /\ master_data = [columns |-> {}, rows |-> <<>>]
  /\ all_discrepancies = <<>>
  /\ invoice_tables = <<>>
  /\ doc = 0
  /\ tbl = 0
  /\ batch_pc = "load"
  /\ batch_ret = None
  /\ batch_log = <<>>
  /\ batch_calls = <<>>

\* master_data = self.load_master_data(master_data_path); an exception is
\* logged twice and raised again.
LoadMasterData ==
  /\ batch_pc = "load"
  /\ \E r \in {load_master_data(master_data_path)} :
       IF r.ok
         THEN /\ master_data' = r.val
              /\ batch_log' = << Log("info", LogLoaded \o str(Len(r.val.rows)) \o LogRecords) >>
              /\ batch_pc' = "doc"
              /\ batch_ret' = batch_ret
         ELSE /\ master_data' = master_data
              /\ batch_log' = << Log("error", LogLoadError \o MasterPath \o ColonSpace \o r.val),
                                 Log("error", LogBatchError \o r.val) >>
              /\ batch_pc' = "raised"
              /\ batch_ret' = Raises(r.val)
  /\ UNCHANGED <<pdf_paths, master_data_path, all_discrepancies, invoice_tables, doc, tbl,
                 batch_calls, files_vars, ai_vars, report_vars>>

\* invoice_tables = self.extract_pdf_data(pdf_path): the next document. An
\* exception ends the document in the except block, no table ends it at once.
ExtractPdf ==
  /\ batch_pc = "doc"
  /\ doc < Len(pdf_paths)
  /\ \E r \in {extract_pdf_data(pdf_paths[doc + 1])} :
       IF r.ok /\ r.val # <<>>
         THEN /\ invoice_tables' = r.val
              /\ batch_pc' = "table"
              /\ doc' = doc
              /\ batch_log' = batch_log \o extract_log(pdf_paths[doc + 1].path, r)
         ELSE /\ invoice_tables' = <<>>
              /\ batch_pc' = "doc"
              /\ doc' = doc + 1
              /\ batch_log' = batch_log \o extract_log(pdf_paths[doc + 1].path, r)
                                \o (IF r.ok THEN <<>> ELSE except_log(pdf_paths[doc + 1].path, r.val))
  /\ UNCHANGED <<pdf_paths, master_data_path, master_data, all_discrepancies, tbl, batch_ret,
                 batch_calls, files_vars, ai_vars, report_vars>>

\* for table in invoice_tables: one table compared, its entries given the
\* source file and added. A TypeError in the loop over the entries ends the
\* document in the except block.
CompareTable ==
  /\ batch_pc = "table"
  /\ \E service \in BatchReplies :
       \E out \in {compare_data_with_ai(service)} :
         \E src \in {source_added(iterated(out.discrepancies), file_name(pdf_paths[doc + 1].path))} :
           /\ batch_calls' = Append(batch_calls,
                [doc |-> doc + 1, table |-> tbl + 1,
                 request |-> [invoice_data |-> invoice_tables[tbl + 1],
                              master_data |-> head(master_data, MasterHeadRows)],
                 service |-> service, returned |-> out.discrepancies])
           /\ all_discrepancies' = IF src.ok THEN extend(all_discrepancies, src.val)
                                   ELSE all_discrepancies
           /\ batch_log' = batch_log \o out.logged
                             \o (IF src.ok THEN <<>> ELSE except_log(pdf_paths[doc + 1].path, src.val))
           /\ IF src.ok /\ tbl + 1 < Len(invoice_tables)
                THEN /\ tbl' = tbl + 1
                     /\ UNCHANGED <<invoice_tables, doc, batch_pc>>
                ELSE /\ tbl' = 0
                     /\ invoice_tables' = <<>>
                     /\ doc' = doc + 1
                     /\ batch_pc' = "doc"
  /\ UNCHANGED <<pdf_paths, master_data_path, master_data, batch_ret,
                 files_vars, ai_vars, report_vars>>

\* return all_discrepancies, discrepancies_df
ReturnDiscrepancies ==
  /\ batch_pc = "doc"
  /\ doc = Len(pdf_paths)
  /\ batch_ret' = Returns([all_discrepancies |-> all_discrepancies,
                           discrepancies_df |-> [rows |-> all_discrepancies]])
  /\ batch_pc' = "done"
  /\ UNCHANGED <<pdf_paths, master_data_path, master_data, all_discrepancies, invoice_tables,
                 doc, tbl, batch_log, batch_calls, files_vars, ai_vars, report_vars>>

NextBatch == LoadMasterData \/ ExtractPdf \/ CompareTable \/ ReturnDiscrepancies

SpecBatch == InitBatch /\ [][NextBatch]_vars

-----------------------------------------------------------------------------
(* create_summary_stats (src/utils.py) and InvoiceProcessor.generate_report *)

\* Largest number of entries in a list given to the report.
MaxDiscrepancies == 3

\* A Python float, kept exact as the quotient num / den, den > 0.
Quotient(num, den) == [num |-> num, den |-> den]
quotient_add(a, b) == Quotient(a.num * b.den + b.num * a.den, a.den * b.den)
quotient_abs(a) == Quotient(IF a.num < 0 THEN 0 - a.num ELSE a.num, a.den)
\* a == b on two floats.
quotient_eq(a, b) == a.num * b.den = b.num * a.den

\* "bad operand type for abs(): '"
MsgBadAbs == <<"b","a","d"," ","o","p","e","r","a","n","d"," ","t","y","p","e"," ","f","o","r"," ","a","b","s","(",")",":"," ","'">>
\* "could not convert string to float: '"
MsgNoFloat == <<"c","o","u","l","d"," ","n","o","t"," ","c","o","n","v","e","r","t"," ","s","t","r","i","n","g"," ","t","o"," ","f","l","o","a","t",":"," ","'">>
\* 'No discrepancies found in the processed invoices.'
MsgNoDiscrepanciesFound == <<"N","o"," ","d","i","s","c","r","e","p","a","n","c","i","e","s"," ","f","o","u","n","d"," ","i","n"," ","t","h","e"," ","p","r","o","c","e","s","s","e","d"," ","i","n","v","o","i","c","e","s",".">>

\* d.get('amount_difference', 0)
amount_difference(d) == dict_get(d, KeyAmountDifference, JInt(0))

\* abs(v): of an int, and of a bool, which is an int; TypeError otherwise.
abs(v) ==
  IF "int" \in DOMAIN v THEN Returns(IF v.int < 0 THEN 0 - v.int ELSE v.int)
  ELSE IF "lit" \in DOMAIN v /\ v.lit = "True" THEN Returns(1)
  ELSE IF "lit" \in DOMAIN v /\ v.lit = "False" THEN Returns(0)
  ELSE Raises(MsgBadAbs \o TypeName(v) \o <<"'">>)

\* amounts = [abs(d.get('amount_difference', 0)) for d in discrepancies]
RECURSIVE amounts(_, _)
amount_added(ds, acc, a) ==
  IF a.ok THEN amounts(Tail(ds), Append(acc, a.val)) ELSE a
amounts(ds, acc) ==
  IF ds = <<>> THEN Returns(acc)
  ELSE amount_added(ds, acc, abs(amount_difference(ds[1])))

\* sum(xs) and max(xs) of a list of ints.
RECURSIVE sum(_)
sum(xs) == IF xs = <<>> THEN 0 ELSE xs[1] + sum(Tail(xs))
max(xs) == CHOOSE m \in {xs[k] : k \in 1..Len(xs)} : \A k \in 1..Len(xs) : xs[k] <= m

SummaryStats(total_discrepancies, total_amount_difference, avg_discrepancy, max_discrepancy) ==
  [total_discrepancies |-> total_discrepancies,
   total_amount_difference |-> total_amount_difference,
   avg_discrepancy |-> avg_discrepancy,
   max_discrepancy |-> max_discrepancy]

\* The statistics of a list of amounts that is not empty.
stats_of(n, a) ==
  IF a.ok
    THEN Returns(SummaryStats(n, sum(a.val), Quotient(sum(a.val), Len(a.val)), max(a.val)))
    ELSE a

\* The statistics taken of the amounts as they are, without abs().
RECURSIVE signed_amounts(_)
signed_amounts(ds) ==
  IF ds = <<>> THEN <<>>
  ELSE << IF "int" \in DOMAIN amount_difference(ds[1]) THEN amount_difference(ds[1]).int ELSE 0 >>
       \o signed_amounts(Tail(ds))
create_summary_stats_signed(ds) ==
  IF ds = <<>> THEN Returns(SummaryStats(0, 0, Quotient(0, 1), 0))
  ELSE stats_of(Len(ds), Returns(signed_amounts(ds)))

create_summary_stats(ds) ==
  IF ds = <<>> THEN Returns(SummaryStats(0, 0, Quotient(0, 1), 0))
  ELSE stats_of(Len(ds), amounts(ds, <<>>))

\* s.replace(c, '')
replace_char(s, c) == SelectSeq(s, LAMBDA x : x # c)
\* s.isdigit()
isdigit(s) == s # <<>> /\ \A k \in 1..Len(s) : IsDigit(s[k])

\* str(v).replace('.', '').replace('-', '').isdigit(): str() of an int is
\* its digits after an optional "-"; str() of a list, a dict, None, True or
\* False holds brackets or letters.
is_numeric(v) ==
  IF "int" \in DOMAIN v THEN TRUE
  ELSE IF "str" \in DOMAIN v THEN isdigit(replace_char(replace_char(v.str, "."), "-"))
  ELSE FALSE

\* 10 ** n
RECURSIVE pow10(_)
pow10(n) == IF n = 0 THEN 1 ELSE 10 * pow10(n - 1)

\* float(s) of a str made of digits, "." and "-": an optional "-", digits
\* with at most one "." among them; ValueError otherwise.
float_of_str(s) ==
  LET body == IF s # <<>> /\ s[1] = "-" THEN Tail(s) ELSE s
      dots == {k \in 1..Len(body) : body[k] = "."}
      digits == replace_char(body, ".")
      value == Quotient(int(digits),
                        IF dots = {} THEN 1 ELSE pow10(Len(body) - (CHOOSE k \in dots : TRUE)))
  IN  IF ~isdigit(digits) \/ Cardinality(dots) > 1
        THEN Raises(MsgNoFloat \o s \o <<"'">>)
      ELSE Returns(IF s[1] = "-" THEN Quotient(0 - value.num, value.den) ELSE value)

\* float(v) of a value that passed the filter.
float(v) ==
  IF "int" \in DOMAIN v THEN Returns(Quotient(v.int, 1)) ELSE float_of_str(v.str)

\* sum(abs(float(d.get('amount_difference', 0))) for d in discrepancies
\*     if str(d.get('amount_difference', 0)).replace(...).isdigit())
RECURSIVE sum_abs_float(_, _)
float_added(ds, acc, f) ==
  IF f.ok THEN sum_abs_float(Tail(ds), quotient_add(acc, quotient_abs(f.val))) ELSE f
sum_abs_float(ds, acc) ==
  IF ds = <<>> THEN Returns(acc)
  ELSE IF is_numeric(amount_difference(ds[1]))
    THEN float_added(ds, acc, float(amount_difference(ds[1])))
  ELSE sum_abs_float(Tail(ds), acc)

\* The workbook written: the Discrepancies sheet, and the Summary sheet if
\* there is one.
ExcelReport(sheet, summary) == [Discrepancies |-> sheet, Summary |-> summary]
\* The rows of the Summary sheet: Metric and Value.
summary_data(n, total) ==
  [TotalDiscrepancies |-> n,
   TotalAmountDifference |-> total,
   AverageDiscrepancy |-> Quotient(total.num, total.den * n)]

\* The report of a list that is not empty, given the sum of line 256.
report_of(ds, total) ==
  IF total.ok
    THEN Returns(ExcelReport([rows |-> ds], Some(summary_data(Len(ds), total.val))))
    ELSE total

\* generate_report writing an empty sheet for an empty list.
generate_report_empty_sheet(ds) ==
  IF ds = <<>>
    THEN Returns(ExcelReport([rows |-> <<>>], None))
    ELSE report_of(ds, sum_abs_float(ds, Quotient(0, 1)))

\* generate_report: the workbook, or the exception raised again.
generate_report(ds) ==
  IF ds = <<>>
    THEN Returns(ExcelReport([rows |-> << [Message |-> MsgNoDiscrepanciesFound] >>], None))
    ELSE report_of(ds, sum_abs_float(ds, Quotient(0, 1)))

\* The sampled entries, by their amount_difference.
\* 'n/a'
AmountNA == <<"n","/","a">>
\* '2.5'
Amount2Point5 == <<"2",".","5">>
\* '1-2'
Amount1Dash2 == <<"1","-","2">>
Entry(name, amount) == JDict(<< Item(KeyItemName, JStr(name)), Item(KeyAmountDifference, amount) >>)
ReportEntries ==
  { Entry(ItemBolt, JInt(10)), Entry(ItemNut, JInt(0 - 20)), Entry(ItemGear, JInt(5)),
    Entry(ItemNut, JStr(AmountMinus20)), Entry(ItemBolt, JStr(Amount2Point5)),
    Entry(ItemGear, JStr(AmountNA)), Entry(ItemBolt, JStr(Amount1Dash2)),
    JDict(<< Item(KeyItemName, JStr(ItemGear)), Item(KeyDescription, JStr(DescMissing)) >>) }
DiscrepancyLists == UNION { [1..n -> ReportEntries] : n \in 0..MaxDiscrepancies }

InitReport ==
  /\ IdleFiles
  /\ IdleAI
  /\ IdleBatch
  /\ discrepancy_list \in DiscrepancyLists
  /\ stats = None
  /\ report = None

CreateSummaryStats ==
  /\ stats = None
  /\ stats' = Some(create_summary_stats(discrepancy_list))
  /\ UNCHANGED <<discrepancy_list, report, files_vars, ai_vars, batch_vars>>

GenerateReport ==
  /\ report = None
  /\ report' = Some(generate_report(discrepancy_list))
  /\ UNCHANGED <<discrepancy_list, stats, files_vars, ai_vars, batch_vars>>

NextReport == CreateSummaryStats \/ GenerateReport

SpecReport == InitReport /\ [][NextReport]_vars

-----------------------------------------------------------------------------
(* The main script of src/Raw.py. It has the variables of process_files:   *)
(* df, reports, the files gone through; pdf_files holds os.listdir of the  *)
(* folder and ret the CSV written. Its extract_text_from_pdf and           *)
(* find_patient_id are those of src/app.py, and so is its table lookup.    *)

\* '.pdf'
ExtPdf == <<".","p","d","f">>
\* '.PDF'
ExtUpperPdf == <<".","P","D","F">>
\* '.txt'
ExtTxt == <<".","t","x","t">>
\* 'scan_'
NameScan == <<"s","c","a","n","_">>

\* s.endswith(suffix)
endswith(s, suffix) ==
  Len(suffix) <= Len(s) /\ SubSeq(s, Len(s) - Len(suffix) + 1, Len(s)) = suffix

\* The row the script appends: no Status.
RawRow(pid, fname, errors) == [PatientID |-> pid, PDFFile |-> fname, DataErrors |-> errors]

\* "Clean up the response"
raw_clean_up(answer) ==
  IF contains(PhraseNoDiscrepancies, lower(answer)) \/ contains(PhraseAllTheData, lower(answer))
    THEN NoDiscrepancies
    ELSE answer

\* compare_with_gpt of the script: one request, the stripped content; an
\* exception of the call is not caught.
raw_compare_with_gpt(pdf_text, excel_row, service) ==
  [requests |-> << [pdf_text |-> SubSeq(pdf_text, 1, IF Len(pdf_text) < MaxPromptChars
                                                     THEN Len(pdf_text) ELSE MaxPromptChars),
                    excel_row |-> excel_row] >>,
   val |-> IF service.ok THEN Returns(strip(service.val)) ELSE service]

\* The rest of the loop body once the call was made.
raw_compared(list, fname, pid, answer) ==
  IF answer.val.ok
    THEN Falls(append(list, RawRow(pid, fname, raw_clean_up(answer.val.val))), answer.requests)
    ELSE Throws(list, answer.requests, answer.val.val)

\* The loop body from the lookup on: no row for an identifier the table
\* does not hold.
raw_with_records(list, fname, service, txt, pid, matching_records) ==
  IF matching_records = <<>> THEN Falls(list, <<>>)
  ELSE raw_compared(list, fname, pid, raw_compare_with_gpt(txt, matching_records[1], service))

\* The loop body from find_patient_id on: no row when no identifier is found.
raw_with_pid(list, table, fname, service, txt, pid) ==
  IF ~pid.some \/ pid.val = <<>> THEN Falls(list, <<>>)
  ELSE IF PatientIDCol \notin table.columns THEN Throws(list, <<>>, KeyErrorPatientID)
  ELSE raw_with_records(list, fname, service, txt, pid.val, matching(table, pid.val))

raw_with_text(list, table, fname, service, txt) ==
  IF ~txt.ok THEN Throws(list, <<>>, txt.val)
  ELSE raw_with_pid(list, table, fname, service, txt.val, find_patient_id(txt.val))

\* One pass of the loop over os.listdir(PDF_FOLDER).
raw_loop_body(list, table, entry, service) ==
  IF ~endswith(lower(entry.name), ExtPdf) THEN Falls(list, <<>>)
  ELSE raw_with_text(list, table, entry.name, service, extract_text_from_pdf(entry.bytes))

\* The folder: every entry a PDF document or another file, named by its
\* place.
RawName(k, ext) == NameScan \o str(k) \o ext
FolderEntries == (PdfSamples \X {ExtPdf, ExtUpperPdf}) \cup {<<CorruptPdf, ExtTxt>>}
Folders == UNION { [1..n -> FolderEntries] : n \in 0..MaxDocs }
RawServiceSamples == { Returns(RespSentinel), Returns(RespMismatch), Raises(ErrTimeout) }

InitRaw ==
  /\ \E folder \in Folders :
       pdf_files = [k \in DOMAIN folder |->
                      [name |-> RawName(k, folder[k][2]), bytes |-> folder[k][1]]]
  /\ excel_file \in ExcelSamples
  /\ df = [columns |-> {}, rows |-> <<>>]
  /\ reports = <<>>
  /\ i = 0
  /\ pc = "raw_load"
  /\ ret = NoFrame
  /\ calls = <<>>
  /\ IdleAI
  /\ IdleBatch
  /\ IdleReport

\* df = pd.read_excel(EXCEL_FILE, dtype={"Patient ID": str}); an exception
\* ends the script.
RawLoadExcel ==
  /\ pc = "raw_load"
  /\ \E r \in {read_excel(excel_file)} :
       IF r.ok
         THEN /\ df' = r.val
              /\ pc' = "raw_loop"
              /\ ret' = ret
         ELSE /\ df' = df
              /\ pc' = "raw_crashed"
              /\ ret' = [kind |-> "Traceback", rows |-> <<>>]
  /\ UNCHANGED <<pdf_files, excel_file, reports, i, calls, ai_vars, batch_vars, report_vars>>

\* for fname in os.listdir(PDF_FOLDER): one entry; an exception ends the
\* script.
RawProcessFile ==
  /\ pc = "raw_loop"
  /\ i < Len(pdf_files)
  /\ \E service \in RawServiceSamples :
       \E b \in {raw_loop_body(reports, df, pdf_files[i + 1], service)} :
           /\ reports' = b.reports
           /\ calls' = calls \o [k \in 1..Len(b.requests) |->
                                   [doc |-> i + 1, request |-> b.requests[k], service |-> service]]
           /\ pc' = IF b.raised THEN "raw_crashed" ELSE pc
           /\ ret' = IF b.raised THEN [kind |-> "Traceback", rows |-> <<>>] ELSE ret
  /\ i' = i + 1
  /\ UNCHANGED <<pdf_files, excel_file, df, ai_vars, batch_vars, report_vars>>

\* result_df = pd.DataFrame(reports); result_df.to_csv(OUTPUT_FILE)
RawSaveResults ==
  /\ pc = "raw_loop"
  /\ i = Len(pdf_files)
  /\ ret' = [kind |-> "csv", rows |-> reports]
  /\ pc' = "raw_done"
  /\ UNCHANGED <<pdf_files, excel_file, df, reports, i, calls, ai_vars, batch_vars, report_vars>>

NextRaw == RawLoadExcel \/ RawProcessFile \/ RawSaveResults

SpecRaw == InitRaw /\ [][NextRaw]_vars

-----------------------------------------------------------------------------
(* The two pipelines, either of which a run may take *)

InitPipelines == Init \/ InitBatch
NextPipelines == Next \/ NextBatch
SpecPipelines == InitPipelines /\ [][NextPipelines]_vars

-----------------------------------------------------------------------------
(* What the claims speak about *)

\* The text of file k, and the identifier resolved from it.
TextOf(k) == extract_text_from_pdf(pdf_files[k].bytes)
PidOf(k) == find_patient_id(TextOf(k).val)
Resolved(k) == TextOf(k).ok /\ PidOf(k).some
\* The requests sent to the comparison service for file k.
CallsOf(k) == SelectSeq(calls, LAMBDA c : c.doc = k)
\* The table has the identifier column; the rows holding identifier pid.
HasColumn == PatientIDCol \in df.columns
RowsWith(pid) == {r \in 1..Len(df.rows) : df.rows[r][PatientIDCol] = pid}
\* The phrases the response is searched for (lower case).
SentinelPhrases == {PhraseNoDiscrepancies, PhraseAllTheData}
IsSentinel(content) == lower(strip(content)) \in SentinelPhrases

\* C1: process_files returns exactly one row per input document, whatever
\* extraction, identifier resolution, lookup and comparison do: after k
\* documents the report has k rows, each with one of the three statuses, and
\* the returned frame has as many rows as there are input documents.
C1_OneRowPerDocument ==
  /\ Len(reports) = i
  /\ \A k \in 1..Len(reports) : reports[k].Status \in {"Clean", "Error", "Data Error"}
  /\ ret.kind = "DataFrame" => ret.rows = reports /\ Len(ret.rows) = Len(pdf_files)

\* A returned frame of a batch in which one extraction raised and one
\* comparison raised.
C1_Witness ==
  /\ ret.kind = "DataFrame"
  /\ Len(ret.rows) >= 2
  /\ \E k \in 1..Len(pdf_files) : ~TextOf(k).ok
  /\ \E n \in 1..Len(calls) : ~calls[n].service.ok

\* C2: the comparison service is called exactly once for a document whose
\* identifier was resolved and has a reference row, and never otherwise; a
\* document without identifier gets the identifier-not-found row, a document
\* whose identifier the table does not hold gets the reference-not-found row.
C2_CallsExactlyWhenMatched ==
  \A k \in 1..i :
    LET txt == TextOf(k)
        pid == find_patient_id(txt.val)
        resolved == txt.ok /\ pid.some
        rows == IF resolved /\ HasColumn THEN RowsWith(pid.val) ELSE {}
    IN  /\ Len(CallsOf(k)) = (IF rows # {} THEN 1 ELSE 0)
        /\ k <= Len(reports)
        /\ (txt.ok /\ ~pid.some)
             => reports[k] = Row(NotFound, pdf_files[k].name, MsgIdNotFound, "Error")
        /\ (resolved /\ HasColumn /\ rows = {})
             => reports[k] = Row(pid.val, pdf_files[k].name,
                                 MsgPatientID \o pid.val \o MsgNotInExcel, "Error")

\* A batch with one document that was compared (after a failed call, which
\* was not repeated) and one whose identifier the table does not hold.
C2_Witness ==
  /\ \E k \in 1..i : Len(CallsOf(k)) = 1 /\ ~CallsOf(k)[1].service.ok
  /\ \E k \in 1..i : Resolved(k) /\ HasColumn /\ RowsWith(PidOf(k).val) = {}

\* C3: row k of the report is the outcome of input document k, also when
\* documents end in an error outcome.
C3_ReportInInputOrder ==
  /\ \A k \in 1..Len(reports) :
       /\ k <= Len(pdf_files)
       /\ reports[k].PDFFile = pdf_files[k].name
       /\ reports[k].PatientID \in {NotFound, ErrorID} \cup {PidOf(k).val}
  /\ ret.kind = "DataFrame" => ret.rows = reports

\* A returned frame whose first row is an error outcome and whose second row
\* is the outcome of a comparison.
C3_Witness ==
  /\ ret.kind = "DataFrame"
  /\ Len(ret.rows) >= 2
  /\ ret.rows[1].PatientID \in {NotFound, ErrorID}
  /\ ret.rows[2].Status \in {"Clean", "Data Error"}

\* What failed for file k, if anything: extraction, the lookup, the service.
FailureOf(k) ==
  IF ~TextOf(k).ok THEN Some(TextOf(k).val)
  ELSE IF PidOf(k).some /\ ~HasColumn THEN Some(KeyErrorPatientID)
  ELSE IF CallsOf(k) # <<>> /\ ~CallsOf(k)[1].service.ok THEN Some(CallsOf(k)[1].service.val)
  ELSE None
\* The rows file k gets when it is processed alone, under the service
\* behaviour it met (any behaviour, when it sent no request).
AloneRows(k) ==
  { loop_body(<<>>, df, pdf_files[k], s).reports[1] :
      s \in IF CallsOf(k) = <<>> THEN ServiceSamples ELSE {CallsOf(k)[1].service} }

\* The run ends only after the last document, and each row is the row its
\* document gets when processed alone.
FailuresAreIsolated ==
  /\ (pc = "done" /\ excel_file.readable) => (i = Len(pdf_files) /\ ret.kind = "DataFrame")
  /\ \A k \in 1..i : k <= Len(reports) /\ reports[k] \in AloneRows(k)

\* C4: a failure on one document (extraction, lookup or comparison) never
\* aborts the batch and never changes another document's outcome, and the
\* failing document gets an error outcome with a descriptive message.
C4_FailureIsolatedAndReported ==
  /\ FailuresAreIsolated
  /\ \A k \in 1..i :
       FailureOf(k).some =>
         /\ reports[k].Status = "Error"
         /\ contains(FailureOf(k).val, reports[k].DataErrors)

\* C5: whenever the comparison service call fails, the document's row has
\* Status 'Error' and carries the error message, whatever the message says.
C5_ServiceFailureIsError ==
  \A n \in 1..Len(calls) :
    ~calls[n].service.ok =>
      /\ calls[n].doc <= Len(reports)
      /\ reports[calls[n].doc].Status = "Error"
      /\ contains(calls[n].service.val, reports[calls[n].doc].DataErrors)

\* The same for the failures whose message holds no searched phrase.
ServiceFailureWithoutPhraseIsError ==
  \A n \in 1..Len(calls) :
    (~calls[n].service.ok /\ \A p \in SentinelPhrases : ~contains(p, lower(calls[n].service.val))) =>
      /\ reports[calls[n].doc].Status = "Error"
      /\ reports[calls[n].doc].DataErrors = MsgErrorDuringComparison \o calls[n].service.val

\* C6: a response equal to an accepted 'no discrepancies' phrase, whatever
\* its case, gives the row Clean / 'No discrepancies', and cleaning up the
\* normalized description again gives Clean / 'No discrepancies' again.
C6_SentinelIsClean ==
  \A n \in 1..Len(calls) :
    (calls[n].service.ok /\ IsSentinel(calls[n].service.val)) =>
      /\ calls[n].doc <= Len(reports)
      /\ reports[calls[n].doc].Status = "Clean"
      /\ reports[calls[n].doc].DataErrors = NoDiscrepancies
      /\ clean_up(reports[calls[n].doc].DataErrors)
           = [clean_discrepancies |-> NoDiscrepancies, status |-> "Clean"]

\* A document whose response was the phrase in upper case, with whitespace
\* around it.
C6_Witness ==
  \E n \in 1..Len(calls) :
    /\ calls[n].service = Returns(RespSentinelUpper)
    /\ reports[calls[n].doc].Status = "Clean"

\* C7: a response that is not an accepted sentinel phrase is never Clean: its
\* row is a discrepancy row whose description is the response text.
C7_OtherResponseIsDiscrepancy ==
  \A n \in 1..Len(calls) :
    (calls[n].service.ok /\ ~IsSentinel(calls[n].service.val)) =>
      /\ calls[n].doc <= Len(reports)
      /\ reports[calls[n].doc].Status = "Data Error"
      /\ reports[calls[n].doc].DataErrors = strip(calls[n].service.val)

\* C8: a workbook that cannot be read, or that lacks the identifier column,
\* is fatal to the run: no document is processed, no request is sent and no
\* row is produced.
C8_LoadFailureIsFatal ==
  (~excel_file.readable \/ PatientIDCol \notin excel_file.columns) =>
    /\ i = 0
    /\ reports = <<>>
    /\ calls = <<>>

\* The same for the workbook that cannot be read.
UnreadableIsFatal ==
  ~excel_file.readable =>
    i = 0 /\ reports = <<>> /\ calls = <<>> /\ ret.kind # "DataFrame" /\ pc # "loop"

\* C9: the reference record sent with a document is the first row, in table
\* order, whose identifier cell is string-equal to the resolved identifier:
\* 000123 picks the first row stored as 000123, not the row stored as 123,
\* and a second row with the same identifier is ignored without error.
C9_FirstExactMatch ==
  \A n \in 1..Len(calls) :
    LET k == calls[n].doc
        pid == PidOf(k).val
        row == calls[n].request.excel_row
    IN  /\ RowsWith(pid) # {}
        /\ row = df.rows[CHOOSE r \in RowsWith(pid) : \A q \in RowsWith(pid) : r <= q]
        /\ row[PatientIDCol] = pid
        /\ (Len(pid) > 1 /\ pid[1] = "0")
             => \E r \in 1..Len(df.rows) :
                  /\ df.rows[r] = row
                  /\ excel_file.rows[r][PatientIDCol] = TextCell(pid)
        /\ k <= Len(reports) => reports[k].PatientID = pid

\* Identifier 000123 compared against ALICE's row, the first of the two rows
\* stored as 000123, in a table whose first row is stored as 123.
C9_Witness ==
  \E n \in 1..Len(calls) :
    /\ PidOf(calls[n].doc).val = Cell000123
    /\ calls[n].request.excel_row[NameCol] = TextCell(CellAlice)
    /\ Cardinality(RowsWith(Cell000123)) = 2
    /\ df.rows[1][PatientIDCol] = <<"1", "2", "3">>

\* The discrepancies array of the object the sampled response holds.
SentDiscrepancies ==
  reply_parts.val.object.dict[
    CHOOSE n \in 1..Len(reply_parts.val.object.dict) :
      reply_parts.val.object.dict[n].key = KeyDiscrepancies].value

\* C10: for a response made of any leading text, one valid JSON object with
\* a discrepancies array, and any trailing text, compare_data_with_ai returns
\* that object's discrepancies array.
C10_ProseAroundObject ==
  (ai_pc = "done" /\ reply_parts.some) => returned = Some(SentDiscrepancies)

\* The same for the responses whose leading text holds no "{" and whose
\* trailing text holds no "}".
ProseWithoutBracesAroundObject ==
  (/\ ai_pc = "done"
   /\ reply_parts.some
   /\ ~contains(<<"{">>, reply_parts.val.lead)
   /\ ~contains(<<"}">>, reply_parts.val.trail))
    => returned = Some(SentDiscrepancies) /\ logged = <<>>

\* A response with prose on both sides parsed into its two entries.
ProseAroundObjectParsed ==
  /\ ai_pc = "done"
  /\ reply_parts.some
  /\ reply_parts.val.lead = LeadProse
  /\ reply_parts.val.trail = TrailProse
  /\ returned = Some(SentDiscrepancies)
  /\ Len(returned.val.list) = 2

-----------------------------------------------------------------------------
(* What the claims about the structured pipeline speak about *)

\* The tables extract_pdf_data gives for document k (none when it raises).
TablesOf(k) ==
  IF extract_pdf_data(pdf_paths[k]).ok THEN extract_pdf_data(pdf_paths[k]).val ELSE <<>>
\* The calls of compare_data_with_ai made for document k.
BatchCallsOf(k) == SelectSeq(batch_calls, LAMBDA c : c.doc = k)
\* The record a parse failure leaves in the log: a warning when the response
\* holds no "{...}", an error when what the braces enclose is not JSON; None
\* for a response that parses and for a call that raised.
ParseFailureOf(json_match) ==
  IF ~json_match.some THEN Some(Log("warning", LogNoJson))
  ELSE IF ~loads(json_match.val).ok THEN Some(Log("error", LogParseError \o JSONDecodeError))
  ELSE None
ParseFailure(service) ==
  IF service.ok THEN ParseFailureOf(search_braces(strip(service.val))) ELSE None
\* The call of compare_data_with_ai made last.
LastCall == batch_calls[Len(batch_calls)]
\* The entries a call adds to all_discrepancies: those it returned, unless
\* the loop over them raised.
AddedBy(c, name) ==
  IF source_added(iterated(c.returned), name).ok
    THEN source_added(iterated(c.returned), name).val
    ELSE <<>>
RECURSIVE AddedUpTo(_)
AddedUpTo(n) ==
  IF n = 0 THEN <<>>
  ELSE AddedUpTo(n - 1) \o AddedBy(batch_calls[n], file_name(pdf_paths[batch_calls[n].doc].path))

\* C11: a response without a JSON object, or with malformed JSON between its
\* braces, gives zero discrepancies for its table and a logged parse failure,
\* and the batch goes on: the next table of the document is compared, every
\* document is gone through, and the batch returns. The parse failure is
\* looked at in the state its call leaves (every call is the last one once);
\* that the next table was compared is looked at for every earlier call that
\* returned nothing.
C11_ParseFailureGivesNothing ==
  /\ master_data_path.readable => batch_pc # "raised"
  /\ batch_pc = "done" => (doc = Len(pdf_paths) /\ batch_ret.ok)
  /\ Len(all_discrepancies) = Len(AddedUpTo(Len(batch_calls)))
  /\ batch_calls # <<>> =>
       \A failure \in {ParseFailure(LastCall.service)} :
         failure.some
           => /\ LastCall.returned = JList(<<>>)
              /\ \E m \in 1..Len(batch_log) : batch_log[m] = failure.val
              /\ LastCall.table < Len(TablesOf(LastCall.doc))
                   => /\ batch_pc = "table"
                      /\ doc + 1 = LastCall.doc
                      /\ tbl = LastCall.table
  /\ \A n \in 1..(Len(batch_calls) - 1) :
       (/\ batch_calls[n].returned = JList(<<>>)
        /\ batch_calls[n].table < Len(TablesOf(batch_calls[n].doc)))
         => /\ batch_calls[n + 1].doc = batch_calls[n].doc
            /\ batch_calls[n + 1].table = batch_calls[n].table + 1

\* A returned batch in which the first table of a document got malformed
\* JSON and its second table two entries, and another table got no JSON.
C11_Witness ==
  /\ batch_pc = "done"
  /\ Len(all_discrepancies) = 2
  /\ \E n \in 1..Len(batch_calls) : batch_calls[n].service = Returns(ReplyNoJson)
  /\ \E n \in 1..(Len(batch_calls) - 1) :
       /\ batch_calls[n].service = Returns(ReplyMalformed)
       /\ batch_calls[n + 1].doc = batch_calls[n].doc
       /\ batch_calls[n + 1].service = Returns(ReplyTwoEntries)

-----------------------------------------------------------------------------
(* What the claims about the report speak about *)

\* Every entry of the list has an integer amount_difference.
IntegerAmounts ==
  \A k \in 1..Len(discrepancy_list) : "int" \in DOMAIN amount_difference(discrepancy_list[k])
\* The absolute values of the integer amounts, in list order.
AbsoluteAmounts ==
  [k \in 1..Len(discrepancy_list) |->
     IF amount_difference(discrepancy_list[k]).int < 0
       THEN 0 - amount_difference(discrepancy_list[k]).int
       ELSE amount_difference(discrepancy_list[k]).int]
RECURSIVE TotalUpTo(_)
TotalUpTo(k) == IF k = 0 THEN 0 ELSE TotalUpTo(k - 1) + AbsoluteAmounts[k]

\* C12: for a list that is not empty and whose amount_difference values are
\* integers, create_summary_stats returns the sum of the absolute values,
\* the largest absolute value, that sum divided by the number of entries,
\* and the number of entries; for 10, -20, 5 these are 35, 20, 35/3 and 3.
C12_SummaryOfAbsoluteAmounts ==
  (stats.some /\ discrepancy_list # <<>> /\ IntegerAmounts) =>
    /\ stats.val.ok
    /\ stats.val.val.total_discrepancies = Len(discrepancy_list)
    /\ stats.val.val.total_amount_difference = TotalUpTo(Len(discrepancy_list))
    /\ \E k \in 1..Len(discrepancy_list) : stats.val.val.max_discrepancy = AbsoluteAmounts[k]
    /\ \A k \in 1..Len(discrepancy_list) : stats.val.val.max_discrepancy >= AbsoluteAmounts[k]
    /\ stats.val.val.avg_discrepancy.num * Len(discrepancy_list)
         = TotalUpTo(Len(discrepancy_list)) * stats.val.val.avg_discrepancy.den
    /\ AbsoluteAmounts = <<10, 20, 5>> =>
         /\ stats.val.val.total_amount_difference = 35
         /\ stats.val.val.max_discrepancy = 20
         /\ stats.val.val.avg_discrepancy.num * 3 = 35 * stats.val.val.avg_discrepancy.den

\* The statistics of the amounts 10, -20, 5.
C12_Witness ==
  /\ Len(discrepancy_list) = 3
  /\ amount_difference(discrepancy_list[1]) = JInt(10)
  /\ amount_difference(discrepancy_list[2]) = JInt(0 - 20)
  /\ amount_difference(discrepancy_list[3]) = JInt(5)
  /\ stats = Some(Returns(SummaryStats(3, 35, Quotient(35, 3), 20)))

\* C13: for an empty list generate_report writes a workbook whose
\* Discrepancies sheet is the one message 'No discrepancies found in the
\* processed invoices.' and raises nothing, and create_summary_stats returns
\* zero for every statistic and raises nothing.
C13_EmptyListTolerated ==
  discrepancy_list = <<>> =>
    /\ report.some =>
         /\ report.val.ok
         /\ report.val.val.Discrepancies.rows = << [Message |-> MsgNoDiscrepanciesFound] >>
    /\ stats.some =>
         /\ stats.val.ok
         /\ stats.val.val.total_discrepancies = 0
         /\ stats.val.val.total_amount_difference = 0
         /\ stats.val.val.avg_discrepancy.num = 0
         /\ stats.val.val.max_discrepancy = 0

\* The report and the statistics of the empty list.
C13_Witness ==
  /\ discrepancy_list = <<>>
  /\ report.some
  /\ report.val.ok
  /\ stats.some
  /\ stats.val.ok

\* The entries whose amount_difference is numeric: an integer, or a string
\* that float() converts.
NumericEntries ==
  { k \in 1..Len(discrepancy_list) :
      /\ is_numeric(amount_difference(discrepancy_list[k]))
      /\ float(amount_difference(discrepancy_list[k])).ok }

\* C18: for every list of entries whose amount_difference is an integer, a
\* numeric string, another string, or absent, create_summary_stats and the
\* Summary sheet of generate_report both complete, give the same total and
\* the same average, and the average is the total divided by the number of
\* entries with a numeric amount_difference.
C18_SummarySheetAgreesWithStats ==
  (stats.some /\ report.some /\ discrepancy_list # <<>>) =>
    /\ stats.val.ok
    /\ report.val.ok
    /\ quotient_eq(report.val.val.Summary.val.TotalAmountDifference,
                   Quotient(stats.val.val.total_amount_difference, 1))
    /\ quotient_eq(report.val.val.Summary.val.AverageDiscrepancy,
                   stats.val.val.avg_discrepancy)
    /\ report.val.val.Summary.val.AverageDiscrepancy.num * Cardinality(NumericEntries)
         = report.val.val.Summary.val.TotalAmountDifference.num
             * report.val.val.Summary.val.AverageDiscrepancy.den

\* The same for the lists whose amounts are integers: both complete and
\* agree.
IntegerSummarySheetAgreesWithStats ==
  (stats.some /\ report.some /\ discrepancy_list # <<>> /\ IntegerAmounts) =>
    /\ stats.val.ok
    /\ report.val.ok
    /\ quotient_eq(report.val.val.Summary.val.TotalAmountDifference,
                   Quotient(stats.val.val.total_amount_difference, 1))
    /\ quotient_eq(report.val.val.Summary.val.AverageDiscrepancy,
                   stats.val.val.avg_discrepancy)

-----------------------------------------------------------------------------
(* What the claims about the first JSON object speak about *)

\* C14: the parser takes the first JSON object of the response, up to its
\* matching closing brace, and nothing that follows the object (text with
\* braces, a second object) changes the list it returns: for a response
\* whose object is the first "{" of the text, the list returned is the
\* discrepancies array of that object, whatever the trailing text.
C14_TextAfterObjectIgnored ==
  (/\ ai_pc = "done"
   /\ reply_parts.some
   /\ ~contains(<<"{">>, reply_parts.val.lead))
    => returned = Some(SentDiscrepancies)

\* The same for the responses with no "}" after the object.
TextWithoutBraceAfterObjectIgnored ==
  (/\ ai_pc = "done"
   /\ reply_parts.some
   /\ ~contains(<<"{">>, reply_parts.val.lead)
   /\ ~contains(<<"}">>, reply_parts.val.trail))
    => returned = Some(SentDiscrepancies)

-----------------------------------------------------------------------------
(* What the claim about the command-line reconciler speaks about *)

\* The entries of the folder that are PDF documents.
RawPdfs == {k \in 1..Len(pdf_files) : endswith(lower(pdf_files[k].name), ExtPdf)}

\* C15: the report written by the script of Raw.py has one row per PDF
\* document of the folder, also for a document without identifier and for
\* a document whose identifier the table does not hold.
C15_RawOneRowPerPdf ==
  pc = "raw_done" =>
    /\ ret.kind = "csv"
    /\ Len(ret.rows) = Cardinality(RawPdfs)
    /\ \A k \in RawPdfs : \E n \in 1..Len(ret.rows) : ret.rows[n].PDFFile = pdf_files[k].name

\* What the script does: a row per document that was compared, and none
\* for another.
RawOneRowPerComparison ==
  /\ pc # "raw_crashed" => Len(reports) = Len(calls)
  /\ \A n \in 1..Len(reports) :
       /\ n <= Len(calls)
       /\ reports[n].PDFFile = pdf_files[calls[n].doc].name
       /\ calls[n].doc \in RawPdfs

-----------------------------------------------------------------------------
(* What the claims about the batch results speak about *)

\* 'inv_a.pdf', 'inv_b.pdf', 'inv_c.pdf': the file names of the sampled
\* paths.
DocumentNames ==
  << <<"i","n","v","_","a",".","p","d","f">>,
     <<"i","n","v","_","b",".","p","d","f">>,
     <<"i","n","v","_","c",".","p","d","f">>  >>
DocumentName(k) == DocumentNames[((k - 1) % Len(DocumentNames)) + 1]

\* Document k failed: its extraction raised, or a comparison call made for
\* one of its tables raised.
ExtractionFailed(k) == ~extract_pdf_data(pdf_paths[k]).ok
ComparisonFailed(k) ==
  \E n \in 1..Len(batch_calls) : batch_calls[n].doc = k /\ ~batch_calls[n].service.ok
\* The entries of the returned results that name document k.
ResultsOf(k) ==
  { n \in 1..Len(batch_ret.val.all_discrepancies) :
      dict_get(batch_ret.val.all_discrepancies[n], KeySourceFile, JLit("None"))
        = JStr(DocumentName(k)) }

\* C16: a document whose extraction or comparison call failed is surfaced in
\* the results process_invoice_batch returns: the results hold an outcome
\* for it, so that it does not look like a document that was compared and
\* had no discrepancy.
C16_FailureSurfacedInResults ==
  batch_pc = "done" =>
    \A k \in 1..Len(pdf_paths) :
      (ExtractionFailed(k) \/ ComparisonFailed(k)) => ResultsOf(k) # {}

\* What the code does for a failure: it logs it.
FailureIsLogged ==
  batch_pc = "done" =>
    \A k \in 1..Len(pdf_paths) :
      /\ ExtractionFailed(k) =>
           \E m \in 1..Len(batch_log) :
             batch_log[m] = Log("st.error", LogProcessError \o DocumentName(k) \o ColonSpace \o ErrNoPdf)
      /\ ComparisonFailed(k) =>
           \E m \in 1..Len(batch_log) :
             batch_log[m] = Log("error", LogAiError \o ErrRateLimit)

\* C17: the reference table is the table loaded at the start and no step
\* changes it, and the outcome list only grows at its end, in process_files
\* (df, reports) and in process_invoice_batch (master_data,
\* all_discrepancies).
C17_TableReadOnlyOutcomesAppended ==
  /\ [](pc \in {"loop", "done"} /\ excel_file.readable => df = read_excel(excel_file).val)
  /\ [](batch_pc \in {"doc", "table", "done"} => master_data = load_master_data(master_data_path).val)
  /\ [][/\ pc = "loop" => df' = df
        /\ batch_pc \in {"doc", "table"} => master_data' = master_data
        /\ Len(reports) <= Len(reports')
        /\ SubSeq(reports', 1, Len(reports)) = reports
        /\ Len(all_discrepancies) <= Len(all_discrepancies')
        /\ SubSeq(all_discrepancies', 1, Len(all_discrepancies)) = all_discrepancies]_vars

\* A batch returned after two tables each added two entries.
C17_Witness ==
  /\ batch_pc = "done"
  /\ Len(batch_calls) = 2
  /\ Len(all_discrepancies) = 4
  /\ master_data.rows # <<>>

\* The value of a call is a list of dicts: its entries are added.
AllDicts(value) ==
  "list" \in DOMAIN value /\ \A j \in 1..Len(value.list) : "dict" \in DOMAIN value.list[j]
\* The number of entries added by the calls before call n.
RECURSIVE EntriesBefore(_)
EntriesBefore(n) ==
  IF n <= 1 THEN 0
  ELSE EntriesBefore(n - 1)
       + (IF AllDicts(batch_calls[n - 1].returned) THEN Len(batch_calls[n - 1].returned.list) ELSE 0)

\* C19: at every point of process_invoice_batch every entry of
\* all_discrepancies is an entry some call returned, with a source_file
\* that is the file name of the document the call was made for, whatever
\* source_file the response gave and whatever was raised later.
C19_SourceFileOfDocument ==
  /\ Len(all_discrepancies) = EntriesBefore(Len(batch_calls) + 1)
  /\ \A n \in 1..Len(batch_calls) :
       AllDicts(batch_calls[n].returned) =>
         \A j \in 1..Len(batch_calls[n].returned.list) :
           /\ "dict" \in DOMAIN all_discrepancies[EntriesBefore(n) + j]
           /\ dict_get(all_discrepancies[EntriesBefore(n) + j], KeySourceFile, JLit("None"))
                = JStr(DocumentName(batch_calls[n].doc))
           /\ dict_get(all_discrepancies[EntriesBefore(n) + j], KeyItemName, JLit("None"))
                = dict_get(batch_calls[n].returned.list[j], KeyItemName, JLit("None"))

\* Entries whose response named another file, kept under the name of their
\* document after a later table raised TypeError and a later document could
\* not be extracted.
C19_Witness ==
  /\ batch_pc = "done"
  /\ \E n \in 1..(Len(batch_calls) - 1) :
       /\ batch_calls[n].service = Returns(ReplyTwoEntries)
       /\ dict_get(batch_calls[n].returned.list[1], KeySourceFile, JLit("None")) = JStr(OtherFile)
       /\ batch_calls[n + 1].service = Returns(ReplyMixedEntries)
       /\ batch_calls[n].doc < Len(pdf_paths)
       /\ ExtractionFailed(Len(pdf_paths))
  /\ Len(all_discrepancies) = 2
  /\ dict_get(all_discrepancies[1], KeySourceFile, JLit("None")) # JStr(OtherFile)

====
